---------------------------- MODULE Spec2Model ----------------------------
(***************************************************************************)
(* Model of the product scraper: the /scrape attempt loop of app.py and    *)
(* the WalmartSpider callbacks (parse, parse_product_detail) that run in   *)
(* the crawl subprocess of each attempt.                                   *)
(*                                                                         *)
(* Encoding of Python values:                                              *)
(*   a missing text field (None or "")   is ""                             *)
(*   a missing link (None)                is NoLink = 0, links are 1..     *)
(*   a missing price (None)               is NoPrice = -1, prices are Nat  *)
(***************************************************************************)
EXTENDS Integers, Sequences, FiniteSets, TLC

VARIABLES
    \* ---- the /scrape request handler (app.py) ----
    num_products,      \* clamped target count of the request
    min_price,         \* price band handed to the spider
    max_price,
    attempt,           \* attempt counter of the while loop
    collected,         \* records kept so far, in order
    seen_links,        \* links of the records kept so far
    opc,               \* position of the handler: loop, crawl, done, error
    resp,              \* the HTTP response, once returned
    debug,             \* the request has debug=true
    blocked_fetched,   \* history: some page fetched in this run was a challenge page
    \* ---- the crawl subprocess of the current attempt (WalmartSpider) ----
    sp_num_products,   \* spider.num_products
    max_pages,         \* spider.max_pages
    results_found,     \* spider.results_found
    sp_seen_links,     \* spider.seen_links
    pages_processed,   \* spider.pages_processed
    listing_req,       \* page number of the outstanding listing request, 0 if none
    url_page,          \* page parameter of that request's URL, NoUrl if none
    fingerprints,      \* listing URLs requested so far in this crawl
    detail_reqs,       \* outstanding detail-page requests (their partial_item)
    items,             \* the feed written with -o: items yielded, in order
    issued,            \* history: kind and browser context of the requests issued
    \* ---- the store (Product and ImageURL tables) ----
    db,                \* the committed rows
    last_save,         \* argument and return value of the last _save_products_to_db
    upserted,          \* history: the links the calls so far reported on
    \* ---- the /captcha/interactive request handler (app.py) ----
    ipc,               \* position of the handler: start, navigating, waiting, returned
    iresp,             \* its HTTP response, once returned
    app_storage,       \* walmart_storage.json: absent, earlier (written by an
                       \* earlier run) or this_run
    \* ---- the site ----
    site,              \* what the fetcher returns: arbitrary pages, or uniform pages
    spider_storage,    \* walmart_storage.json exists in the spider's package
    db_faulty,         \* the database can raise errors during this run
    \* ---- inputs ----
    call               \* the raw input under study and what the code made of it

vars == << num_products, min_price, max_price, attempt, collected, seen_links,
           opc, resp, debug, blocked_fetched, sp_num_products, max_pages, results_found, sp_seen_links,
           pages_processed, listing_req, url_page, fingerprints, detail_reqs,
           items, issued, db, last_save, upserted, ipc, iresp, app_storage,
           site, spider_storage, db_faulty, call >>

envVars == << site, spider_storage, db_faulty, call >>

sessionVars == << ipc, iresp, app_storage >>

storeVars == << db, last_save, upserted >>

appVars    == << num_products, min_price, max_price, attempt, collected,
                 seen_links, opc, resp, debug >>
spiderVars == << sp_num_products, max_pages, results_found, sp_seen_links,
                 pages_processed, listing_req, url_page, fingerprints,
                 detail_reqs, items, issued >>

----------------------------------------------------------------------------
(* Bounds of the model *)

MaxTarget == 2      \* largest num_products of a request
MaxCards  == 2      \* largest number of cards on a listing page
MaxDetail == 2      \* largest number of outstanding detail requests
NLinks    == 2      \* number of distinct product links of the site
SitePages == 1      \* number of result pages the site has for the search
MaxPerPage == 3     \* largest number of cards per page of a uniform site
MaxUniformTarget == 10  \* largest num_products of a request to a uniform site
MaxBatch  == 2      \* largest number of products of a direct call of the store
MaxRows   == 2      \* direct calls stop once the store holds that many products
MaxImages == 2      \* or that many image URLs
MaxInputLen == 3    \* longest text of a form field
MaxNest   == 2      \* deepest nesting of tracking wrappers in a link
MaxTextLen == 3     \* most words and amounts in a price text
MaxPriceNodes == 1  \* most price nodes the attempts find on a card
MaxSelectors == 2   \* most selector attempts for a field
MaxPieces == 2      \* most pieces of text of a page
MaxOutput == 3      \* most rows of an output file given to the loop alone
MaxLines == 4       \* most lines of an output file

(* Program constants *)

\* faulty variant: the loop allows a fourth attempt
max_attempts_Four == 3 + 1

max_attempts == 3
BasePages    == 8
PageStep     == 4

NoLink  == 0
NoPrice == -1
NoPage  == 0
NoUrl   == -1       \* no URL: no request, or no 'Next Page' link on a page
BareUrl == 0        \* a search URL without a page parameter
Inf     == 1000     \* float("inf"), above every price of the model

Links == 1..NLinks

\* a link value l of Links stands for the product URL <origin>/ip/l, in its
\* relative or absolute form; TrackedLink(l) stands for the tracking URL
\* <origin>/sp/track?rd=%2Fip%2Fl of a sponsored card of that product
TrackBase == 1000
TrackedLink(l) == TrackBase + l
IsTracking(link) == link > TrackBase
ProductOf(link) == IF IsTracking(link) THEN link - TrackBase ELSE link

\* a function applied to an argument, with its result
Call(fn, arg, ret) == [fn |-> fn, arg |-> arg, ret |-> ret, done |-> TRUE]
\* a function about to be applied to an argument
Pending(fn, arg) == [fn |-> fn, arg |-> arg, ret |-> << >>, done |-> FALSE]
NoCall == Call("none", << >>, << >>)

Min(a, b) == IF a <= b THEN a ELSE b
Max(a, b) == IF a >= b THEN a ELSE b

----------------------------------------------------------------------------
(* The site: listing pages and detail pages the fetcher can return *)

\* a card of a listing page, as field extraction sees it
Card(n, p, i, l, t) ==
    [name |-> n, price |-> p, image |-> i, link |-> l, typename |-> t]

CardPool ==
      { Card("n", 1, "i", l, "Product") : l \in Links }        \* complete, cheap
 \cup { Card("n", 3, "i", NLinks, "Product"),                  \* complete, expensive
        Card("n", 0, "i", 1, "Product"),                       \* price parsed as 0
        Card("",  NoPrice, "", NoLink, "Product"),             \* nothing extracted
        Card("n", 1, "i", 1, "AdPlaceholder") }                \* not a product entry

SeqsUpTo(S, n) == UNION { [1..k -> S] : k \in 0..n }

\* the cards of a result page with sponsored placements: the organic card of
\* product 1, a sponsored card of the same product, and a card of product 1
\* whose price is parsed as 0
SponsoredPool ==
    { Card("n", 1, "i", 1, "Product"),
      Card("n", 1, "i", TrackedLink(1), "Product"),
      Card("n", 0, "i", 1, "Product") }

\* the text of a page, character by character
NormalHtml ==
    << "n", "o", "r", "m", "a", "l", " ", "c", "o", "n", "t", "e", "n",
       "t" >>
ChallengeHtml ==
    << "A", "r", "e", " ", "y", "o", "u", " ", "a", " ", "r", "o", "b",
       "o", "t" >>
MixedHtml ==
    << "n", "o", "r", "m", "a", "l", " ", "c", "o", "n", "t", "e", "n",
       "t", " ", "c", "a", "p", "t", "c", "h", "a" >>

\* kind "json": the page carries a __NEXT_DATA__ blob whose items are cards;
\* kind "dom":  no blob, cards are the div[data-item-id] elements
Pages == [kind : {"json", "dom"}, cards : SeqsUpTo(CardPool, MaxCards)]

\* the arbitrary site: every fetch returns any page of Pages
AnySite == [per_page |-> 0, kind |-> "any", partial |-> FALSE,
            next_link |-> TRUE, hostile |-> FALSE, detail |-> "any",
            sponsored |-> FALSE]

\* its pages when it shows sponsored placements: cards without blob
SponsoredPages == [kind : {"dom"}, cards : SeqsUpTo(SponsoredPool, MaxCards)]

\* the arbitrary site with sponsored placements
SponsoredSite == [AnySite EXCEPT !.sponsored = TRUE]

\* the arbitrary site whose detail pages always carry every field
FullDetailSite == [AnySite EXCEPT !.detail = "full"]

\* the arbitrary site that also serves challenge pages and 'Next Page'
\* links without a page parameter
HostileSite == [AnySite EXCEPT !.hostile = TRUE]

\* a uniform site: every page holds per_page cards never listed before, card i
\* of page pn having link (pn - 1) * per_page + i, so that links grow in
\* discovery order; on a partial site the odd cards of a page lack their name
\* next_link tells whether its pages carry a 'Next Page' link
UniformSites ==
    [per_page : 1..MaxPerPage, kind : {"json", "dom"}, partial : BOOLEAN,
     next_link : BOOLEAN, hostile : {FALSE}, detail : {"uniform"},
     sponsored : {FALSE}]

UniformCard(pn, i, st) ==
    Card(IF st.partial /\ i % 2 = 1 THEN "" ELSE "n", 1, "i",
         (pn - 1) * st.per_page + i, "Product")

UniformPage(pn, st) ==
    [kind |-> st.kind,
     cards |-> [i \in 1..st.per_page |-> UniformCard(pn, i, st)]]

\* What a page can carry in its __NEXT_DATA__ script:
\*   "absent"        no script
\*   "malformed"     text that json.loads refuses
\*   "null_key"      JSON in which a key on the way to itemStacks holds null
\*   "missing_keys"  JSON without the keys on the way to itemStacks
\*   "no_items"      itemStacks without any item
\*   "items"         product entries
\*   "item_raises"   a product entry followed by an entry whose priceInfo
\*                   is null
BlobKinds ==
    { "absent", "malformed", "null_key", "missing_keys", "no_items", "items",
      "item_raises" }

\* a site whose pages all carry a script of the same kind next to two
\* div[data-item-id] cards: a complete one and one without name
BlobSites ==
    [per_page : {0}, kind : {"blob"}, partial : {FALSE}, next_link : {TRUE},
     hostile : {FALSE}, detail : {"any"}, sponsored : {FALSE},
     blob : BlobKinds]

\* cards holds the entries of the script that the loop reaches, dom the
\* div[data-item-id] cards
BlobPage(st) ==
    [kind  |-> "mixed", blob |-> st.blob,
     cards |-> IF st.blob \in { "items", "item_raises" }
               THEN << Card("n", 1, "i", 1, "Product") >> ELSE << >>,
     dom   |-> << Card("n", 1, "i", 2, "Product"),
                  Card("", 1, "i", 3, "Product") >>]

\* the cards of a result page that lists product 1 twice, once without name
\* and once with a price parsed as 0, next to the complete card of product 2
TwinPool ==
    { Card("", 1, "i", 1, "Product"),
      Card("n", 0, "i", 1, "Product"),
      Card("n", 1, "i", 2, "Product") }

TwinPages == [kind : {"dom"}, cards : SeqsUpTo(TwinPool, MaxCards)]

\* a site all of whose result pages are such pages
TwinSite == [per_page |-> 0, kind |-> "twins", partial |-> FALSE,
             next_link |-> TRUE, hostile |-> FALSE, detail |-> "any",
             sponsored |-> FALSE]

\* past the last result page the site answers with a page without cards
EmptyPage == [kind |-> "dom", cards |-> << >>]

\* int(query.get("page", ["1"])[0] or "1"): the page a URL asks for
CurrentPage(url) == IF url = BareUrl THEN 1 ELSE url

\* what extraction finds on the page served for a URL
Fetch(url) ==
    IF site.kind = "blob" THEN { BlobPage(site) }
    ELSE IF site.kind = "twins" THEN TwinPages
    ELSE IF site.kind # "any" THEN { UniformPage(CurrentPage(url), site) }
    ELSE IF CurrentPage(url) > SitePages THEN { EmptyPage }
    ELSE IF site.sponsored THEN SponsoredPages
    ELSE Pages

\* the 'Next Page' link of that page: absent, the URL of the following
\* page, or a search URL that carries no page parameter
Hrefs(url, page) ==
    IF site.kind # "any"
    THEN { IF site.next_link THEN CurrentPage(url) + 1 ELSE NoUrl }
    ELSE IF page = EmptyPage THEN { NoUrl }
    ELSE { NoUrl, CurrentPage(url) + 1 }
         \cup (IF site.hostile THEN { BareUrl } ELSE {})

\* the text of that page; a challenge page has neither blob nor cards
Htmls(page) ==
    IF ~ site.hostile THEN { NormalHtml }
    ELSE IF page = EmptyPage THEN { NormalHtml, ChallengeHtml }
    ELSE { NormalHtml, MixedHtml }

\* what field extraction finds on a product detail page:
\* price_txt is NoPrice when no selector matches, else the parsed amount
DetailPages ==
    { [name |-> "d", price_txt |-> 2, image |-> "j"],
      [name |-> "d", price_txt |-> NoPrice, image |-> ""],
      [name |-> "",  price_txt |-> 3, image |-> "j"],
      [name |-> "",  price_txt |-> NoPrice, image |-> ""] }

\* on a uniform site the detail page of a card supplies the missing name
UniformDetail == [name |-> "d", price_txt |-> NoPrice, image |-> ""]

\* a detail page with name, price and image
FullDetail == [name |-> "d", price_txt |-> 2, image |-> "j"]

FetchDetail ==
    IF site.detail = "uniform" THEN { UniformDetail }
    ELSE IF site.detail = "full" THEN { FullDetail }
    ELSE DetailPages

----------------------------------------------------------------------------
(* WalmartSpider: the gate *)

\* _required_missing: a field is missing when it is falsy (None, "", 0)
\* the faulty variant: only an absent price counts as missing
_required_missing_ZeroOk(product) ==
       (IF product.name = "" THEN {"name"} ELSE {})
  \cup (IF product.price = NoPrice THEN {"price"} ELSE {})
  \cup (IF product.image = "" THEN {"image"} ELSE {})
  \cup (IF product.link = NoLink THEN {"link"} ELSE {})

_required_missing(product) ==
       (IF product.name = "" THEN {"name"} ELSE {})
  \cup (IF product.price = NoPrice \/ product.price = 0 THEN {"price"} ELSE {})
  \cup (IF product.image = "" THEN {"image"} ELSE {})
  \cup (IF product.link = NoLink THEN {"link"} ELSE {})

\* faulty variant: the band check is dropped
_is_price_allowed_NoBand(price) == price # NoPrice

_is_price_allowed(price) ==
    IF price = NoPrice THEN FALSE
    ELSE min_price <= price /\ price <= max_price

_is_valid_product(product) ==
    IF _required_missing(product) # {} THEN FALSE
    ELSE _is_price_allowed(product.price)

\* _normalize_link: no link stays no link, an absolute link is returned as
\* it is and a relative one gets the origin in front; the path and the query
\* of the link are not looked at
_normalize_link(link) == IF link = NoLink THEN NoLink ELSE link

Product(c, src) ==
    [name |-> c.name, price |-> c.price, image |-> c.image,
     link |-> _normalize_link(c.link), source |-> src]

\* the spider's mutable state threaded through the loops of parse
SpiderState ==
    [results_found |-> results_found, seen_links |-> sp_seen_links,
     items |-> items, reqs |-> detail_reqs]

\* the faulty variant: the record is emitted and counted, its link is not remembered
Accept_NoLink(s, product) ==
    [s EXCEPT !.results_found = @ + 1,
              !.items = Append(@, product)]

Accept(s, product) ==
    [s EXCEPT !.seen_links = @ \cup {product.link},
              !.results_found = @ + 1,
              !.items = Append(@, product)]

\* one iteration of the loop over the items of the __NEXT_DATA__ blob
JsonItem(s, item) ==
    IF s.results_found >= sp_num_products THEN s
    ELSE IF item.typename # "Product" THEN s
    ELSE IF item.link \in s.seen_links THEN s
    ELSE IF _is_valid_product(Product(item, "json_extraction"))
         THEN Accept(s, Product(item, "json_extraction"))
    ELSE s

\* faulty variant: the loop over the cards does not stop at the target
DomCard_NoBreak(s, card) ==
    IF card.link \in s.seen_links THEN s
    ELSE LET product == Product(card, "dom_scrape") IN
         IF _required_missing(product) # {} /\ card.link # NoLink
         THEN [s EXCEPT !.reqs = @ \cup {product}]
         ELSE IF ~ _is_valid_product(product) THEN s
         ELSE Accept(s, product)

\* one iteration of the loop over the DOM cards
DomCard(s, card) ==
    IF s.results_found >= sp_num_products THEN s
    ELSE IF card.link \in s.seen_links THEN s
    ELSE LET product == Product(card, "dom_scrape") IN
         IF _required_missing(product) # {} /\ card.link # NoLink
         THEN [s EXCEPT !.reqs = @ \cup {product}]
         ELSE IF ~ _is_valid_product(product) THEN s
         ELSE Accept(s, product)

\* the loops are written so that each iteration's state is computed once:
\* next and rest are bound to the values of the iteration
RECURSIVE JsonLoop(_, _)
JsonLoop(s, cards) ==
    IF cards = << >> THEN s
    ELSE CHOOSE out \in { JsonLoop(next, rest) :
                             next \in { JsonItem(s, Head(cards)) },
                             rest \in { Tail(cards) } } : TRUE

RECURSIVE DomLoop(_, _)
DomLoop(s, cards) ==
    IF cards = << >> THEN s
    ELSE CHOOSE out \in { DomLoop(next, rest) :
                             next \in { DomCard(s, Head(cards)) },
                             rest \in { Tail(cards) } } : TRUE

\* a listing request: meta["page_number"] and the page parameter of its URL
Request(pn, url) == [page_number |-> pn, url |-> url]

NoRequest == Request(NoPage, NoUrl)

\* _build_next_page_url: the page after the one the response URL asks for
_build_next_page_url(current_url) == CurrentPage(current_url) + 1

\* faulty variant: no next page is ever requested
_maybe_schedule_next_page_Never(found, page_number, url, next_href) ==
    NoRequest

\* _maybe_schedule_next_page: the request it returns, or NoRequest;
\* url is response.url, next_href the page's 'Next Page' link
_maybe_schedule_next_page(found, page_number, url, next_href) ==
    IF found >= sp_num_products THEN NoRequest
    ELSE IF page_number >= max_pages THEN NoRequest
    ELSE IF next_href # NoUrl THEN Request(page_number + 1, next_href)
    ELSE Request(_build_next_page_url(url), _build_next_page_url(url))

\* the script is absent, or reading it raises: before the loop over its
\* entries (json.loads, .get on None) or inside it; the except branch and the
\* absent script both lead to the DOM cards
DomReached(page) ==
    IF page.kind = "mixed"
    THEN page.blob \in { "absent", "malformed", "null_key", "item_raises" }
    ELSE page.kind = "dom"

\* the div[data-item-id] cards of a page
DomCards(page) == IF page.kind = "mixed" THEN page.dom ELSE page.cards

\* parse: the state after the callback, and the next listing request
ParseLoop(s, page) ==
    IF page.kind = "json" THEN JsonLoop(s, page.cards)
    ELSE IF page.kind = "dom" THEN DomLoop(s, page.cards)
    ELSE IF DomReached(page)
         THEN CHOOSE out \in { DomLoop(after, page.dom) :
                                  after \in { JsonLoop(s, page.cards) } } : TRUE
    ELSE JsonLoop(s, page.cards)

\* faulty variant: a page without blob and without cards does not end parse
ParseNext_NoReturn(s, page, page_number, url, next_href) ==
    IF s.results_found < sp_num_products
    THEN _maybe_schedule_next_page(s.results_found, page_number, url,
                                   next_href)
    ELSE NoRequest

\* after the loop over the candidates: the next listing request, if any; a
\* page without blob and without cards returns before
ParseNext(s, page, page_number, url, next_href) ==
    IF DomReached(page) /\ DomCards(page) = << >> THEN NoRequest
    ELSE IF s.results_found < sp_num_products
         THEN _maybe_schedule_next_page(s.results_found, page_number, url,
                                        next_href)
    ELSE NoRequest

\* what a request carries in meta["playwright_context"]: a listing request is
\* built by _request_for_url, which attaches the storage state when the file
\* exists; a detail request is built in parse, with no browser context
Issued(kind, storage_state) == [kind |-> kind, storage_state |-> storage_state]

ListingMeta == Issued("listing", spider_storage)

DetailMeta == Issued("detail", FALSE)

\* the scheduler drops a request whose URL was already requested in this
\* crawl (the requests are built without dont_filter)
Enqueue(req) == IF req.url \in fingerprints THEN NoRequest ELSE req

\* faulty variant: parse also requests the page after the next one
NextRequests_Prefetch(s, page, page_number, url, next_href) ==
    { Request(page_number + 1, page_number + 1),
      Request(page_number + 2, page_number + 2) }

\* the listing requests one run of parse yields: the generator reaches one
\* of its two `yield next_req` statements at most once
NextRequests(s, page, page_number, url, next_href) ==
    { ParseNext(s, page, page_number, url, next_href) } \ { NoRequest }

\* parse_product_detail: the merged record
Merged(partial, d) ==
    [name   |-> IF d.name # "" THEN d.name ELSE partial.name,
     price  |-> IF d.price_txt # NoPrice THEN d.price_txt ELSE partial.price,
     image  |-> IF d.image # "" THEN d.image ELSE partial.image,
     link   |-> partial.link,
     source |-> "detail_enrichment"]

----------------------------------------------------------------------------
(* app.py: the /scrape handler *)

_product_missing_fields(product) ==
       (IF product.name = "" THEN {"name"} ELSE {})
  \cup (IF product.price = NoPrice \/ product.price = 0 THEN {"price"} ELSE {})
  \cup (IF product.image = "" THEN {"image"} ELSE {})
  \cup (IF product.link = NoLink THEN {"link"} ELSE {})

_product_is_valid(product) == _product_missing_fields(product) = {}

\* faulty variant: the loop keeps a record whose link was already kept
KeepProduct_NoDedup(acc, product) ==
    IF ~ _product_is_valid(product) THEN acc
    ELSE [collected  |-> Append(acc.collected, product),
          seen_links |-> acc.seen_links \cup {product.link},
          stopped    |-> Len(acc.collected) + 1 >= num_products]

\* one iteration of the loop over the products of an attempt's output;
\* stopped records the break taken once the target is reached
KeepProduct(acc, product) ==
    IF product.link # NoLink /\ product.link \in acc.seen_links THEN acc
    ELSE IF ~ _product_is_valid(product) THEN acc
    ELSE [collected  |-> Append(acc.collected, product),
          seen_links |-> IF product.link # NoLink
                         THEN acc.seen_links \cup {product.link}
                         ELSE acc.seen_links,
          stopped    |-> Len(acc.collected) + 1 >= num_products]

RECURSIVE KeepLoop(_, _)
KeepLoop(acc, products) ==
    IF products = << >> \/ acc.stopped THEN acc
    ELSE CHOOSE out \in { KeepLoop(next, rest) :
                             next \in { KeepProduct(acc, Head(products)) },
                             rest \in { Tail(products) } } : TRUE

\* faulty variant: the page budget is multiplied by the attempt number
MaxPagesFor_Mul(a) == BasePages * a

MaxPagesFor(a) == BasePages + (a - 1) * PageStep

Take(s, n) == SubSeq(s, 1, Min(n, Len(s)))

NoShortfall == -1

\* faulty variant: a shortfall of 0 is reported
Shortfall_Le(products) ==
    IF Len(products) <= num_products THEN num_products - Len(products)
    ELSE NoShortfall

----------------------------------------------------------------------------
(* app.py: the store *)

EmptyDb == [products |-> {}, images |-> {}]

NextId(rows) ==
    IF rows = {} THEN 1
    ELSE (CHOOSE r \in rows : \A q \in rows : q.id <= r.id).id + 1

\* is_complete: price is tested with "is not None", so a price of 0 counts
is_complete(p) ==
    p.name # "" /\ p.price # NoPrice /\ p.image # "" /\ p.link # NoLink

\* faulty variant: the lookup by link never finds a row
Existing_None(rows, link) == {}

\* session.query(Product).filter_by(link=link): made only for a truthy link
Existing(rows, link) ==
    IF link = NoLink THEN {} ELSE { r \in rows : r.link = link }

SavedEntry(id, action, complete) ==
    [id |-> id, action |-> action, is_complete |-> complete]

\* the size in KB recorded for an image: HEAD of image "i" answers with
\* Content-Length 2048, any other HEAD fails and 0 is recorded
HeadSize(url) == IF url = "i" THEN 2 ELSE 0

\* the body of the loop over the products for one product; st holds the
\* rows the session sees and the list saved
Upsert(st, p) ==
    LET ex      == Existing(st.products, p.link)
        e       == CHOOSE r \in ex : TRUE
        prod_id == IF ex # {} THEN e.id ELSE NextId(st.products)
        row     == IF ex # {}
                   THEN [id |-> e.id, link |-> e.link,
                         name  |-> IF p.name # "" THEN p.name ELSE e.name,
                         price |-> IF p.price # NoPrice THEN p.price
                                   ELSE e.price,
                         image |-> IF p.image # "" THEN p.image ELSE e.image,
                         is_complete |-> is_complete(p)]
                   ELSE [id |-> prod_id, link |-> p.link, name |-> p.name,
                         price |-> p.price, image |-> p.image,
                         is_complete |-> is_complete(p)]
    IN [products |-> (st.products \ ex) \cup {row},
        images   |-> IF p.image = "" THEN st.images
                     ELSE st.images \cup
                          { [id |-> NextId(st.images), product_id |-> prod_id,
                             url |-> p.image,
                             size_kb |-> HeadSize(p.image)] },
        saved    |-> Append(st.saved,
                            SavedEntry(prod_id,
                                       IF ex # {} THEN "updated" ELSE "created",
                                       is_complete(p)))]

\* the loop over the products; a database error is raised while product
\* number fail_at is handled (0: none)
RECURSIVE SaveLoop(_, _, _, _)
SaveLoop(st, products, k, fail_at) ==
    IF k > Len(products) \/ k = fail_at THEN st
    ELSE CHOOSE out \in { SaveLoop(next, products, k + 1, fail_at) :
                             next \in { Upsert(st, products[k]) } } :
            TRUE

\* faulty variant: the database error is not caught
_save_products_to_db_Reraise(products, store, fail_at) ==
    LET out == SaveLoop([products |-> store.products, images |-> store.images,
                         saved |-> << >>], products, 1, fail_at)
    IN  [saved  |-> out.saved,
         store  |-> IF fail_at # 0 THEN store
                    ELSE [products |-> out.products, images |-> out.images],
         raised |-> fail_at # 0]

\* the faulty variant: the rows flushed before the error stay in the store
_save_products_to_db_Partial(products, store, fail_at) ==
    LET out == SaveLoop([products |-> store.products, images |-> store.images,
                         saved |-> << >>], products, 1, fail_at)
    IN  [saved  |-> out.saved,
         store  |-> [products |-> out.products, images |-> out.images],
         raised |-> FALSE]

\* _save_products_to_db: fail_at = Len(products) + 1 is an error raised by
\* the commit.  On an error the session is closed without commit, the rows
\* stay as they were, and the list saved so far is returned; raised tells
\* whether an exception leaves the function
_save_products_to_db(products, store, fail_at) ==
    LET out == SaveLoop([products |-> store.products, images |-> store.images,
                         saved |-> << >>], products, 1, fail_at)
    IN  [saved  |-> out.saved,
         store  |-> IF fail_at # 0 THEN store
                    ELSE [products |-> out.products, images |-> out.images],
         raised |-> FALSE]

\* where a call on these products can fail
FailPoints(products) ==
    IF db_faulty THEN 0..(Len(products) + 1) ELSE { 0 }

NoSave == [products |-> << >>, saved |-> << >>]

\* the links a call reported on: one entry of saved for each product handled
Reports(products, saved) ==
    { products[k].link : k \in DOMAIN saved } \ { NoLink }

----------------------------------------------------------------------------

\* the success response built at the end of scrape
Shortfall(products) ==
    IF Len(products) < num_products THEN num_products - Len(products)
    ELSE NoShortfall

checks ==
    { << "r", "o", "b", "o", "t", " ", "o", "r", " ", "h", "u", "m", "a", "n" >>,
      << "a", "r", "e", " ", "y", "o", "u", " ", "a", " ", "r", "o", "b", "o", "t" >>,
      << "p", "l", "e", "a", "s", "e", " ", "v", "e", "r", "i", "f", "y" >>,
      << "c", "h", "a", "l", "l", "e", "n", "g", "e" >>,
      << "/", "b", "l", "o", "c", "k", "e", "d", "?", "u", "r", "l", "=" >>,
      << "p", "x", "-", "c", "l", "o", "u", "d" >>,
      << "c", "a", "p", "t", "c", "h", "a" >> }

UpperCase ==
    << "A", "B", "C", "D", "E", "F", "G", "H", "I", "J", "K", "L", "M",
       "N", "O", "P", "Q", "R", "S", "T", "U", "V", "W", "X", "Y", "Z" >>
LowerCase ==
    << "a", "b", "c", "d", "e", "f", "g", "h", "i", "j", "k", "l", "m",
       "n", "o", "p", "q", "r", "s", "t", "u", "v", "w", "x", "y", "z" >>

\* str.lower()
Lower(text) ==
    [i \in DOMAIN text |->
        IF \E n \in DOMAIN UpperCase : UpperCase[n] = text[i]
        THEN LowerCase[CHOOSE n \in DOMAIN UpperCase : UpperCase[n] = text[i]]
        ELSE text[i]]

\* k in s
Contains(s, k) ==
    \E i \in 1..(Len(s) - Len(k) + 1) : SubSeq(s, i, i + Len(k) - 1) = k

\* faulty variant: the text is searched as it is written
detect_captcha_NoLower(html) ==
    IF html = << >> THEN FALSE
    ELSE \E k \in checks : Contains(html, k)

\* detect_captcha: some keyword of checks occurs in the lower-cased text;
\* `not html` holds for None and for the empty text
detect_captcha(html) ==
    IF html = << >> THEN FALSE
    ELSE \E s \in { Lower(html) } : \E k \in checks : Contains(s, k)

\* the pages of the site that detect_captcha takes for a challenge
PageHtmls == { NormalHtml, ChallengeHtml, MixedHtml }
BlockedHtmls == { html \in PageHtmls : detect_captcha(html) }

\* the debug capture at the end of scrape: a fresh fetch of the search URL.
\* "skipped": the condition of the capture is false; "goto_failed": the
\* fetch raises; "capture_failed": writing the page or the screenshot
\* raises; "ok": the capture ran to its end on the text html
Capture(o, h) == [outcome |-> o, html |-> h]

Captures ==
    { Capture("goto_failed", << >>), Capture("capture_failed", NormalHtml),
      Capture("ok", NormalHtml), Capture("ok", ChallengeHtml) }

DebugCapture(products) ==
    IF Len(products) = 0 \/ debug THEN Captures
    ELSE { Capture("skipped", << >>) }

CaptchaDetected(capture) ==
    IF capture.outcome = "ok" THEN capture.html \in BlockedHtmls ELSE FALSE

\* debug_html_path is assigned once the page content has been read
DebugHtml(capture) == capture.outcome \in { "capture_failed", "ok" }

SuccessResponse(products, capture, saved) ==
    [status |-> 200, count |-> Len(products), products |-> products,
     requested_count |-> num_products, shortfall |-> Shortfall(products),
     saved |-> saved,
     captcha_detected |-> CaptchaDetected(capture),
     debug_html |-> DebugHtml(capture), error |-> ""]

\* faulty variant: the error response carries what was collected so far
ErrorResponse_Partial(code, error) ==
    [status |-> code, count |-> Len(collected), products |-> collected,
     requested_count |-> num_products, shortfall |-> NoShortfall,
     saved |-> << >>, captcha_detected |-> FALSE, debug_html |-> FALSE,
     error |-> error]

\* jsonify({'error': error}), code
ErrorResponse(code, error) ==
    [status |-> code, count |-> 0, products |-> << >>,
     requested_count |-> num_products, shortfall |-> NoShortfall,
     saved |-> << >>, captcha_detected |-> FALSE, debug_html |-> FALSE,
     error |-> error]

NoResp == [status |-> 0, count |-> 0, products |-> << >>,
           requested_count |-> 0, shortfall |-> NoShortfall,
           saved |-> << >>, captcha_detected |-> FALSE, debug_html |-> FALSE,
           error |-> ""]


----------------------------------------------------------------------------
(* app.py: the /captcha/interactive handler *)

\* the record built from one card element; the title falls back to
\* 'Unknown Item', nothing is validated
InteractiveProduct(card) ==
    [name  |-> IF card.name = "" THEN "Unknown Item" ELSE card.name,
     price |-> card.price, image |-> card.image, link |-> card.link]

\* the loop over elems[:num_products]; failed holds the indices of the
\* cards whose extraction raises, which are logged and skipped
RECURSIVE InteractiveLoop(_, _, _)
InteractiveLoop(elems, k, failed) ==
    IF k > Len(elems) THEN << >>
    ELSE IF k \in failed THEN InteractiveLoop(elems, k + 1, failed)
    ELSE << InteractiveProduct(elems[k]) >>
         \o InteractiveLoop(elems, k + 1, failed)

\* context.storage_state(path=...): the file after the call
SaveStorage(storage, ok) == IF ok THEN "this_run" ELSE storage

\* resp['storage_state'] is set when storage_path.exists()
InteractiveResponse(products, saved, storage) ==
    [status |-> 200, error |-> "", count |-> Len(products),
     products |-> products, saved |-> saved,
     storage_state |-> storage # "absent"]

InteractiveError(code, msg) ==
    [status |-> code, error |-> msg, count |-> 0, products |-> << >>,
     saved |-> << >>, storage_state |-> FALSE]

NoIResp == InteractiveError(0, "")

----------------------------------------------------------------------------
(* Initial state: the request has been validated, the loop not yet entered *)

Bands == { [lo |-> 0, hi |-> 2], [lo |-> 1, hi |-> 2] }

InitRest ==
    /\ attempt = 0
    /\ collected = << >>
    /\ seen_links = {}
    /\ opc = "loop"
    /\ resp = NoResp
    /\ blocked_fetched = FALSE
    /\ db = EmptyDb
    /\ last_save = NoSave
    /\ upserted = {}
    /\ ipc = "start"
    /\ iresp = NoIResp
    /\ sp_num_products = 0
    /\ max_pages = 0
    /\ results_found = 0
    /\ sp_seen_links = {}
    /\ pages_processed = 0
    /\ listing_req = NoPage
    /\ url_page = NoUrl
    /\ fingerprints = {}
    /\ detail_reqs = {}
    /\ items = << >>
    /\ issued = {}

Init ==
    /\ num_products \in 1..MaxTarget
    /\ \E b \in Bands : min_price = b.lo /\ max_price = b.hi
    /\ debug = FALSE
    /\ site = AnySite
    /\ app_storage = "absent"
    /\ spider_storage = FALSE
    /\ db_faulty = FALSE
    /\ call = NoCall
    /\ InitRest

\* a request, with or without debug=true, to the hostile site
InitHostile ==
    /\ num_products \in 1..MaxTarget
    /\ \E b \in Bands : min_price = b.lo /\ max_price = b.hi
    /\ debug \in BOOLEAN
    /\ site = HostileSite
    /\ app_storage = "absent"
    /\ spider_storage \in BOOLEAN
    /\ db_faulty = FALSE
    /\ call = NoCall
    /\ InitRest

----------------------------------------------------------------------------
(* Actions of the /scrape handler *)

\* while len(collected) < num_products and attempt < max_attempts:
\* build the command and launch the crawl; the spider is constructed and
\* start_requests issues the request for page 1
\* the faulty variant: every attempt asks the spider for the whole target
StartAttempt_FullTarget ==
    /\ opc = "loop"
    /\ Len(collected) < num_products
    /\ attempt < max_attempts
    /\ attempt' = attempt + 1
    /\ sp_num_products' = num_products
    /\ max_pages' = Max(1, MaxPagesFor(attempt + 1))
    /\ results_found' = 0
    /\ sp_seen_links' = {}
    /\ pages_processed' = 0
    /\ listing_req' = 1
    /\ url_page' = 1
    /\ fingerprints' = {1}
    /\ issued' = { ListingMeta }
    /\ detail_reqs' = {}
    /\ items' = << >>
    /\ opc' = "crawl"
    /\ UNCHANGED << debug, blocked_fetched, num_products, min_price,
                    max_price, collected, seen_links, resp, storeVars,
                    sessionVars, envVars >>

StartAttempt ==
    /\ opc = "loop"
    /\ Len(collected) < num_products
    /\ attempt < max_attempts
    /\ attempt' = attempt + 1
    /\ sp_num_products' = num_products - Len(collected)
    /\ max_pages' = Max(1, MaxPagesFor(attempt + 1))
    /\ results_found' = 0
    /\ sp_seen_links' = {}
    /\ pages_processed' = 0
    /\ listing_req' = 1
    /\ url_page' = 1
    /\ fingerprints' = {1}
    /\ issued' = { ListingMeta }
    /\ detail_reqs' = {}
    /\ items' = << >>
    /\ opc' = "crawl"
    /\ UNCHANGED << debug, blocked_fetched, num_products, min_price,
                    max_price, collected, seen_links, resp, storeVars,
                    sessionVars, envVars >>

SpiderIdle == listing_req = NoPage /\ detail_reqs = {}

\* the crawl exits with status 0; its output is loaded and filtered
AttemptComplete ==
    /\ opc = "crawl"
    /\ SpiderIdle
    /\ \E acc \in { KeepLoop([collected |-> collected, seen_links |-> seen_links,
                               stopped |-> FALSE], items) } :
          /\ collected' = acc.collected
          /\ seen_links' = acc.seen_links
    /\ opc' = "loop"
    /\ UNCHANGED << debug, blocked_fetched, num_products, min_price,
                    max_price, attempt, resp, spiderVars, storeVars,
                    sessionVars, envVars >>

\* subprocess.TimeoutExpired: the crawl exceeded its time limit
CrawlTimeout ==
    /\ opc = "crawl"
    /\ resp' = ErrorResponse(504, "Scraping timed out")
    /\ opc' = "error"
    /\ UNCHANGED << debug, blocked_fetched, num_products, min_price,
                    max_price, attempt, collected, seen_links, spiderVars,
                    storeVars, sessionVars, envVars >>

\* subprocess.CalledProcessError: the crawl exited with a non-zero status
CrawlFailed ==
    /\ opc = "crawl"
    /\ resp' = ErrorResponse(500, "Scrapy failed")
    /\ opc' = "error"
    /\ UNCHANGED << debug, blocked_fetched, num_products, min_price,
                    max_price, attempt, collected, seen_links, spiderVars,
                    storeVars, sessionVars, envVars >>

\* FileNotFoundError: the crawl exited with status 0 and wrote no feed
OutputMissing ==
    /\ opc = "crawl"
    /\ SpiderIdle
    /\ items = << >>
    /\ resp' = ErrorResponse(500, "Scrape output missing")
    /\ opc' = "error"
    /\ UNCHANGED << debug, blocked_fetched, num_products, min_price,
                    max_price, attempt, collected, seen_links, spiderVars,
                    storeVars, sessionVars, envVars >>

\* the loop condition fails: truncate, build the response, return it
Finish ==
    /\ opc = "loop"
    /\ ~ (Len(collected) < num_products /\ attempt < max_attempts)
    /\ \E products \in { Take(collected, num_products) } :
       \E capture \in DebugCapture(products) :
       \E fail_at \in FailPoints(products) :
       \E out \in { _save_products_to_db(products, db, fail_at) } :
          /\ db' = out.store
          /\ last_save' = [products |-> products, saved |-> out.saved]
          /\ upserted' = upserted \cup Reports(products, out.saved)
          /\ IF out.raised
             THEN resp' = ErrorResponse(500, "Internal Server Error")
                  /\ opc' = "error"
             ELSE /\ resp' = SuccessResponse(products, capture, out.saved)
                  /\ opc' = "done"
    /\ UNCHANGED << debug, blocked_fetched, num_products, min_price,
                    max_price, attempt, collected, seen_links, envVars >>
    /\ UNCHANGED << spiderVars, sessionVars >>

----------------------------------------------------------------------------
(* Actions of the crawl: callbacks of the spider *)

\* parse(response) for the outstanding listing request
Parse ==
    /\ opc = "crawl"
    /\ listing_req # NoPage
    /\ \E page \in Fetch(url_page) :
        \E s \in { ParseLoop(SpiderState, page) } :
          /\ Cardinality(s.reqs) <= MaxDetail
          /\ pages_processed' = pages_processed + 1
          /\ results_found' = s.results_found
          /\ sp_seen_links' = s.seen_links
          /\ items' = s.items
          /\ detail_reqs' = s.reqs
          /\ \E blocked \in { (html \in BlockedHtmls) : html \in Htmls(page) } :
                blocked_fetched' = (blocked_fetched \/ blocked)
          /\ \E reqs \in { { r \in NextRequests(s, page, listing_req, url_page,
                                                next_href) :
                                Enqueue(r) # NoRequest } :
                             next_href \in Hrefs(url_page, page) } :
             \E req \in (IF reqs = {} THEN { NoRequest } ELSE reqs) :
             /\ listing_req' = req.page_number
             /\ url_page' = req.url
             /\ fingerprints' = fingerprints \cup { r.url : r \in reqs }
             /\ issued' = issued
                   \cup (IF s.reqs # detail_reqs THEN { DetailMeta }
                        ELSE {})
                   \cup (IF req # NoRequest THEN { ListingMeta } ELSE {})
    /\ UNCHANGED << sp_num_products, max_pages, envVars >>
    /\ UNCHANGED << appVars, storeVars, sessionVars >>

\* the listing request fails to download (e.g. the selector wait times out);
\* the request has no errback, so nothing is called
ListingFailed ==
    /\ opc = "crawl"
    /\ listing_req # NoPage
    /\ listing_req' = NoPage
    /\ url_page' = NoUrl
    /\ UNCHANGED << sp_num_products, max_pages, results_found, sp_seen_links,
                    pages_processed, fingerprints, detail_reqs, items, issued,
                    envVars >>
    /\ UNCHANGED << appVars, blocked_fetched, storeVars, sessionVars >>

\* parse_product_detail(response) for one outstanding detail request
\* the faulty variant: the callback does not test seen_links before it emits
ParseProductDetail_NoSeenTest ==
    /\ opc = "crawl"
    /\ \E partial \in detail_reqs, d \in FetchDetail :
          LET merged == Merged(partial, d) IN
          /\ detail_reqs' = detail_reqs \ {partial}
          /\ IF ~ _is_valid_product(merged)
             THEN UNCHANGED << results_found, sp_seen_links, items >>
             ELSE /\ sp_seen_links' = sp_seen_links \cup {merged.link}
                  /\ results_found' = results_found + 1
                  /\ items' = Append(items, merged)
    /\ UNCHANGED << sp_num_products, max_pages, pages_processed, listing_req,
                    url_page, fingerprints, issued, envVars >>
    /\ UNCHANGED << appVars, blocked_fetched, storeVars, sessionVars >>

ParseProductDetail ==
    /\ opc = "crawl"
    /\ \E partial \in detail_reqs, d \in FetchDetail :
          LET merged == Merged(partial, d) IN
          /\ detail_reqs' = detail_reqs \ {partial}
          /\ IF ~ _is_valid_product(merged) \/ merged.link \in sp_seen_links
             THEN UNCHANGED << results_found, sp_seen_links, items >>
             ELSE /\ sp_seen_links' = sp_seen_links \cup {merged.link}
                  /\ results_found' = results_found + 1
                  /\ items' = Append(items, merged)
    /\ UNCHANGED << sp_num_products, max_pages, pages_processed, listing_req,
                    url_page, fingerprints, issued, envVars >>
    /\ UNCHANGED << appVars, blocked_fetched, storeVars, sessionVars >>

\* faulty variant: a failed detail request closes the spider
DetailFailed_Abort ==
    /\ opc = "crawl"
    /\ detail_reqs # {}
    /\ detail_reqs' = {}
    /\ listing_req' = NoPage
    /\ url_page' = NoUrl
    /\ UNCHANGED << sp_num_products, max_pages, results_found, sp_seen_links,
                    pages_processed, fingerprints,
                    items, issued, envVars >>
    /\ UNCHANGED << appVars, blocked_fetched, storeVars, sessionVars >>

\* a detail request fails to download; no errback
DetailFailed ==
    /\ opc = "crawl"
    /\ \E partial \in detail_reqs : detail_reqs' = detail_reqs \ {partial}
    /\ UNCHANGED << sp_num_products, max_pages, results_found, sp_seen_links,
                    pages_processed, listing_req, url_page, fingerprints,
                    items, issued, envVars >>
    /\ UNCHANGED << appVars, blocked_fetched, storeVars, sessionVars >>

----------------------------------------------------------------------------

\* a request to a uniform site; on partial sites the target is kept small
InitUniform ==
    /\ site \in UniformSites
    /\ num_products \in 1..MaxUniformTarget
    /\ site.partial => num_products <= MaxTarget
    /\ \E b \in Bands : min_price = b.lo /\ max_price = b.hi
    /\ debug = FALSE
    /\ app_storage = "absent"
    /\ spider_storage = FALSE
    /\ db_faulty = FALSE
    /\ call = NoCall
    /\ InitRest

\* the uniform site always answers and the crawl always exits with status 0
NextUniform ==
    \/ StartAttempt
    \/ Parse
    \/ ParseProductDetail
    \/ AttemptComplete
    \/ Finish

Next ==
    \/ StartAttempt
    \/ Parse
    \/ ListingFailed
    \/ ParseProductDetail
    \/ DetailFailed
    \/ AttemptComplete
    \/ OutputMissing
    \/ CrawlTimeout
    \/ CrawlFailed
    \/ Finish

Spec == Init /\ [][Next]_vars

\* ---- the store called directly, batch after batch ----

\* a complete product, the same link with nothing else extracted, and a
\* product without link and image
StorePool ==
    { [name |-> "n", price |-> 1, image |-> "i", link |-> 1],
      [name |-> "", price |-> NoPrice, image |-> "", link |-> 1],
      [name |-> "n", price |-> 1, image |-> "", link |-> NoLink] }

Batches == SeqsUpTo(StorePool, MaxBatch)

InitStore ==
    /\ num_products = 1
    /\ min_price = 0
    /\ max_price = Inf
    /\ debug = FALSE
    /\ site = AnySite
    /\ app_storage = "absent"
    /\ spider_storage = FALSE
    /\ db_faulty = TRUE
    /\ call = NoCall
    /\ InitRest

\* _save_products_to_db(products)
SaveProducts ==
    /\ Cardinality(db.products) < MaxRows
    /\ Cardinality(db.images) < MaxImages
    /\ \E products \in Batches :
       \E fail_at \in FailPoints(products) :
       \E out \in { _save_products_to_db(products, db, fail_at) } :
          /\ db' = out.store
          /\ last_save' = [products |-> products, saved |-> out.saved]
          /\ upserted' = upserted \cup Reports(products, out.saved)
    /\ UNCHANGED << appVars, blocked_fetched, spiderVars, sessionVars, envVars >>

SpecStore == InitStore /\ [][SaveProducts]_vars

\* ---- the human-assisted flow ----

InitInteractive ==
    /\ num_products \in 1..MaxTarget
    /\ min_price = 0
    /\ max_price = Inf
    /\ debug = FALSE
    /\ site = AnySite
    /\ app_storage \in { "absent", "earlier" }
    /\ spider_storage = FALSE
    /\ db_faulty = TRUE
    /\ call = NoCall
    /\ InitRest

interactiveFrame ==
    << appVars, blocked_fetched, spiderVars, envVars >>

\* the headed browser is launched, a context and a page are created
OpenSession ==
    /\ ipc = "start"
    /\ ipc' = "navigating"
    /\ UNCHANGED << iresp, app_storage, storeVars, interactiveFrame >>

\* page.goto returns
Navigated ==
    /\ ipc = "navigating"
    /\ ipc' = "waiting"
    /\ UNCHANGED << iresp, app_storage, storeVars, interactiveFrame >>

\* page.goto raises PWTimeout: the browser is closed, 500 is returned
NavigationTimeout ==
    /\ ipc = "navigating"
    /\ ipc' = "returned"
    /\ iresp' = InteractiveError(500,
                    "Failed to open page for manual captcha solve")
    /\ UNCHANGED << app_storage, storeVars, interactiveFrame >>

\* page.wait_for_selector raises PWTimeout: the browser is closed, 504
MarkerTimeout ==
    /\ ipc = "waiting"
    /\ ipc' = "returned"
    /\ iresp' = InteractiveError(504, "Timed out waiting for product grid")
    /\ UNCHANGED << app_storage, storeVars, interactiveFrame >>

\* the product grid appears: the cards are parsed, the storage state is
\* saved, the browser is closed, the products are stored, 200 is returned
ExtractAndReturn ==
    /\ ipc = "waiting"
    /\ \E elems \in SeqsUpTo(CardPool, MaxCards) \ { << >> } :
       \E failed \in SUBSET (1..Len(Take(elems, num_products))) :
       \E products \in { InteractiveLoop(Take(elems, num_products), 1,
                                         failed) } :
       \E ok \in BOOLEAN :
       \E fail_at \in FailPoints(products) :
       \E out \in { _save_products_to_db(products, db, fail_at) } :
          /\ app_storage' = SaveStorage(app_storage, ok)
          /\ db' = out.store
          /\ last_save' = [products |-> products, saved |-> out.saved]
          /\ upserted' = upserted \cup Reports(products, out.saved)
          /\ iresp' = InteractiveResponse(products,
                          IF out.raised THEN << >> ELSE out.saved,
                          SaveStorage(app_storage, ok))
    /\ ipc' = "returned"
    /\ UNCHANGED interactiveFrame

NextInteractive ==
    \/ OpenSession
    \/ Navigated
    \/ NavigationTimeout
    \/ MarkerTimeout
    \/ ExtractAndReturn

SpecInteractive == InitInteractive /\ [][NextInteractive]_vars

SpecHostile == InitHostile /\ [][Next]_vars

\* a request to the site with sponsored placements
InitSponsored ==
    /\ num_products \in 1..MaxTarget
    /\ \E b \in Bands : min_price = b.lo /\ max_price = b.hi
    /\ debug = FALSE
    /\ site = SponsoredSite
    /\ app_storage = "absent"
    /\ spider_storage = FALSE
    /\ db_faulty = FALSE
    /\ call = NoCall
    /\ InitRest

SpecSponsored == InitSponsored /\ [][Next]_vars

\* a request to a site whose pages carry a script of one kind
InitBlob ==
    /\ num_products \in 1..MaxTarget
    /\ \E b \in Bands : min_price = b.lo /\ max_price = b.hi
    /\ debug = FALSE
    /\ site \in BlobSites
    /\ app_storage = "absent"
    /\ spider_storage = FALSE
    /\ db_faulty = FALSE
    /\ call = NoCall
    /\ InitRest

SpecBlob == InitBlob /\ [][Next]_vars

\* a request to the site that lists a product twice
InitTwins ==
    /\ num_products \in 1..MaxTarget
    /\ \E b \in Bands : min_price = b.lo /\ max_price = b.hi
    /\ debug = FALSE
    /\ site = TwinSite
    /\ app_storage = "absent"
    /\ spider_storage = FALSE
    /\ db_faulty = FALSE
    /\ call = NoCall
    /\ InitRest

SpecTwins == InitTwins /\ [][Next]_vars

\* a request served while the database can raise errors
InitFaults ==
    /\ num_products \in 1..MaxTarget
    /\ \E b \in Bands : min_price = b.lo /\ max_price = b.hi
    /\ debug = FALSE
    /\ site = AnySite
    /\ app_storage = "absent"
    /\ spider_storage = FALSE
    /\ db_faulty = TRUE
    /\ call = NoCall
    /\ InitRest

SpecFaults == InitFaults /\ [][Next]_vars

\* every attempt ends: the reactor runs each pending callback, and
\* subprocess.run returns or raises within its timeout
FairSpec == Spec /\ WF_vars(Next)

SpecUniform == InitUniform /\ [][NextUniform]_vars

\* a request to the site whose detail pages are complete: a detail request
\* that is answered yields a record with every field
InitDetail ==
    /\ num_products \in 1..MaxTarget
    /\ \E b \in Bands : min_price = b.lo /\ max_price = b.hi
    /\ debug = FALSE
    /\ site = FullDetailSite
    /\ app_storage = "absent"
    /\ spider_storage = FALSE
    /\ db_faulty = FALSE
    /\ call = NoCall
    /\ InitRest

SpecDetail == InitDetail /\ [][Next]_vars

FairSpecUniform == SpecUniform /\ WF_vars(NextUniform)

----------------------------------------------------------------------------
(* scrape: the numProducts field of the request form *)

\* the characters of the form values of the model; a text is a sequence
Digits == << "0", "1", "2", "3", "4", "5", "6", "7", "8", "9" >>
FormChars == { "-", "0", "1", "9", "x" }

DigitVal(c) == CHOOSE v \in 0..9 : Digits[v + 1] = c
IsDigit(c) == \E v \in 0..9 : Digits[v + 1] = c

\* the value of a non-empty sequence of digits
RECURSIVE DigitsValue(_)
DigitsValue(ds) ==
    IF Len(ds) = 1 THEN DigitVal(ds[1])
    ELSE 10 * DigitsValue(SubSeq(ds, 1, Len(ds) - 1)) + DigitVal(ds[Len(ds)])

\* the text of an integer as str() writes it
RECURSIVE Str(_)
Str(n) ==
    IF n < 0 THEN << "-" >> \o Str(0 - n)
    ELSE IF n < 10 THEN << Digits[n + 1] >>
    ELSE Append(Str(n \div 10), Digits[(n % 10) + 1])

\* int(text): an optional sign and at least one digit, else ValueError
ValueError == [ok |-> FALSE, value |-> 0]
int(text) ==
    LET signed == text # << >> /\ text[1] = "-"
        body   == IF signed THEN Tail(text) ELSE text
    IN  IF body = << >> \/ \E i \in DOMAIN body : ~ IsDigit(body[i])
        THEN ValueError
        ELSE [ok |-> TRUE,
              value |-> IF signed THEN 0 - DigitsValue(body)
                        ELSE DigitsValue(body)]

\* request.form.get('numProducts'): absent, or a text
Field(present, text) == [present |-> present, text |-> text]
Fields(n) ==
    { Field(FALSE, << >>) } \cup { Field(TRUE, t) : t \in SeqsUpTo(FormChars, n) }

\* faulty variant: the value is capped but has no floor
ParseNumProducts_NoFloor(field) ==
    LET raw == IF ~ field.present \/ field.text = << >>
               THEN [ok |-> TRUE, value |-> 10]
               ELSE int(field.text)
    IN  IF raw.ok THEN Min(raw.value, 100) ELSE 10

\* int(request.form.get('numProducts') or 10), clamped; 10 on ValueError
ParseNumProducts(field) ==
    LET raw == IF ~ field.present \/ field.text = << >>
               THEN [ok |-> TRUE, value |-> 10]
               ELSE int(field.text)
    IN  IF raw.ok THEN Max(1, Min(raw.value, 100)) ELSE 10

\* the site of these requests: one complete card per page, in a blob
FormSite == [per_page |-> 1, kind |-> "json", partial |-> FALSE,
             next_link |-> TRUE, hostile |-> FALSE, detail |-> "uniform",
             sponsored |-> FALSE]

\* a request with any numProducts field
InitRequest ==
    /\ \E field \in Fields(MaxInputLen) :
          /\ call = Call("numProducts", field, ParseNumProducts(field))
          /\ num_products = call.ret
    /\ min_price = 0 /\ max_price = 2
    /\ debug = FALSE
    /\ site = FormSite
    /\ app_storage = "absent"
    /\ spider_storage = FALSE
    /\ db_faulty = FALSE
    /\ InitRest

\* no card of that site needs its detail page and nothing fails
NextRequest ==
    \/ StartAttempt
    \/ Parse
    \/ AttemptComplete
    \/ Finish

SpecRequest == InitRequest /\ [][NextRequest]_vars

----------------------------------------------------------------------------
(* captcha_interactive: the link canonicalizer *)

\* A link text, by its parts:
\*   pad   it has white space around it
\*   form  "abs": it starts with https://www.walmart.com; "rel": it starts
\*         with '/'; "bare": neither ('ip/1')
\*   kind  "ip": the path is /ip/<id>; "track": the path is /sp/track;
\*         "other": another path
\*   rd    for a tracking link, the decoded value of its rd parameter: << >>
\*         when it has none, else << link >>
\*   emb   for a tracking link, the id of a raw /ip/<id> that follows in
\*         its text (0: none)
LinkText(pad, form, kind, id, rd, emb) ==
    [pad |-> pad, form |-> form, kind |-> kind, id |-> id, rd |-> rd,
     emb |-> emb]

\* None, and the falsy raw link (None or '')
NoneLink == LinkText(FALSE, "bare", "none", 0, << >>, 0)

PlainLinks ==
    { LinkText(pad, form, "ip", 1, << >>, 0) :
         pad \in BOOLEAN, form \in { "abs", "rel", "bare" } }
    \cup
    { LinkText(pad, form, "other", 0, << >>, 0) :
         pad \in BOOLEAN, form \in { "abs", "rel", "bare" } }

TrackLinks(inner) ==
    { LinkText(pad, form, "track", 0, rd, emb) :
         pad \in BOOLEAN, form \in { "abs", "rel", "bare" },
         rd \in { << >> } \cup { << l >> : l \in inner }, emb \in { 0, 1 } }

\* the link texts with tracking wrappers nested at most d deep; the value of
\* an rd parameter has no white space around it
RECURSIVE LinkTexts(_)
LinkTexts(d) ==
    IF d = 0 THEN PlainLinks
    ELSE CHOOSE out \in { PlainLinks \cup TrackLinks({ l \in inner : ~ l.pad }) :
                             inner \in { LinkTexts(d - 1) } } : TRUE

RawLinks(n) == { NoneLink } \cup LinkTexts(n)

\* link.strip(), and the origin put in front of a text that starts with '/'
Strip(link) == [link EXCEPT !.pad = FALSE]
Absolute(link) == IF link.form = "rel" THEN [link EXCEPT !.form = "abs"] ELSE link

\* re.search(r'(/ip/...)', unquote(link)): the id of the first raw /ip/ path
\* in the text of a tracking link, decoded once (0: none).  The text of the
\* rd value comes first; what that value wraps is encoded twice
InnerIp(l) ==
    IF l.kind = "ip" /\ l.form # "bare" THEN l.id
    ELSE IF l.kind = "track" THEN l.emb
    ELSE 0
RawIp(link) ==
    IF link.rd # << >> /\ InnerIp(link.rd[1]) # 0 THEN InnerIp(link.rd[1])
    ELSE link.emb

\* _normalize_product_link.  '/sp/track' is looked for in the path that
\* urlparse finds, which misses a bare 'sp/track?...'; the rd value counts
\* when, decoded, it starts with '/' or 'http'; else the first raw /ip/ path
\* of the decoded text is taken
_normalize_product_link(raw_link) ==
    IF raw_link = NoneLink THEN NoneLink
    ELSE LET link == Absolute(Strip(raw_link)) IN
         IF link.kind = "track" /\ link.form # "bare"
         THEN IF link.rd # << >> /\ link.rd[1].form # "bare"
              THEN Absolute(link.rd[1])
              ELSE IF RawIp(link) # 0
              THEN LinkText(FALSE, "abs", "ip", RawIp(link), << >>, 0)
              ELSE link
         ELSE link

\* everything but call
progVars == << appVars, blocked_fetched, spiderVars, storeVars, sessionVars,
               site, spider_storage, db_faulty >>

NormalizeProductLink ==
    /\ call.fn = "_normalize_product_link" /\ ~ call.done
    /\ call' = Call(call.fn, call.arg, _normalize_product_link(call.arg))
    /\ UNCHANGED progVars

----------------------------------------------------------------------------
(* The price parsers *)

\* A price text is a sequence of tokens separated by white space: words, and
\* amounts.  An amount has a '$' in front of it or not, a whole part, and
\* flen decimals of value frac.  Prices are counted in cents.
Word(w) ==
    [t |-> "word", w |-> w, dollar |-> FALSE, whole |-> 0, frac |-> 0,
     flen |-> 0]
Amount(dollar, whole, frac, flen) ==
    [t |-> "amt", w |-> "", dollar |-> dollar, whole |-> whole, frac |-> frac,
     flen |-> flen]

\* float() of the text of an amount, in cents
Cents(a) == a.whole * 100 + (IF a.flen = 1 THEN a.frac * 10 ELSE a.frac)

\* the words the parser knows as discount labels, and the price label
DiscountLabels == { "now", "clearance", "reduced", "sale" }
CurrentPrice == "current price"

PriceTokens ==
    { Word("now"), Word(CurrentPrice), Word("was"),
      Amount(TRUE, 12, 34, 2), Amount(TRUE, 9, 99, 2),
      Amount(TRUE, 10, 29, 2), Amount(TRUE, 12, 99, 2),
      Amount(FALSE, 10, 29, 2), Amount(TRUE, 10, 5, 1),
      Amount(TRUE, 1029, 0, 0), Amount(FALSE, 1029, 0, 0),
      Amount(TRUE, 10, 0, 0) }

PriceTexts(n) == SeqsUpTo(PriceTokens, n)

\* the positions of the amounts of a text
Amounts(text) == { i \in DOMAIN text : text[i].t = "amt" }

\* the positions of the amounts with two decimals, with three digits or more
\* before the point, with a '$' and one or two decimals, with a '$'
TwoDecimals(text) == { i \in Amounts(text) : text[i].flen = 2 }
ThreeDigits(text) == { i \in Amounts(text) : Len(Str(text[i].whole)) >= 3 }
DollarDecimal(text) ==
    { i \in Amounts(text) : text[i].dollar /\ text[i].flen >= 1 }
Dollar(text) == { i \in Amounts(text) : text[i].dollar }

\* the positions of a text where a word of labels is followed by one of
\* the amounts
Labeled(text, labels, amounts) ==
    { i \in 1..(Len(text) - 1) :
         /\ text[i].t = "word" /\ text[i].w \in labels
         /\ (i + 1) \in amounts }

First(S) == CHOOSE i \in S : \A j \in S : i <= j
Last(S)  == CHOOSE i \in S : \A j \in S : i >= j

HasCurrentPrice(text) ==
    \E i \in DOMAIN text : text[i].t = "word" /\ text[i].w = CurrentPrice

\* _parse_price_value: the searches in the order of the code
\*   labeled_decimal, labeled_compact (three digits or more: cents),
\*   current_price_match, decimal_currency (last), m2, compact_currency (last)
_parse_price_value(text) ==
    LET labeled_decimal  == Labeled(text, DiscountLabels, TwoDecimals(text))
        labeled_compact  == Labeled(text, DiscountLabels, ThreeDigits(text))
        current_price    == Labeled(text, { CurrentPrice }, TwoDecimals(text))
        decimal_currency == DollarDecimal(text)
        m2               == TwoDecimals(text)
        compact_currency == Dollar(text)
    IN  IF text = << >> THEN NoPrice
        ELSE IF labeled_decimal # {}
             THEN Cents(text[First(labeled_decimal) + 1])
        ELSE IF labeled_compact # {}
             THEN text[First(labeled_compact) + 1].whole
        ELSE IF current_price # {}
             THEN Cents(text[First(current_price) + 1])
        ELSE IF decimal_currency # {}
             THEN Cents(text[Last(decimal_currency)])
        ELSE IF m2 # {} THEN Cents(text[First(m2)])
        ELSE IF compact_currency # {}
             THEN IF HasCurrentPrice(text)
                     /\ Last(compact_currency) \in ThreeDigits(text)
                  THEN text[Last(compact_currency)].whole
                  ELSE text[Last(compact_currency)].whole * 100
        ELSE NoPrice

\* faulty variant: a text without a number gives 0
_parse_price_Zero(txt) ==
    IF Amounts(txt) = {} THEN 0
    ELSE Cents(txt[First(Amounts(txt))])

\* WalmartSpider._parse_price: the first number of the text
_parse_price(txt) ==
    IF txt = << >> THEN NoPrice
    ELSE IF Amounts(txt) = {} THEN NoPrice
    ELSE Cents(txt[First(Amounts(txt))])

ParsePriceValue ==
    /\ call.fn = "_parse_price_value" /\ ~ call.done
    /\ call' = Call(call.fn, call.arg, _parse_price_value(call.arg))
    /\ UNCHANGED progVars

SpiderParsePrice ==
    /\ call.fn = "_parse_price" /\ ~ call.done
    /\ call' = Call(call.fn, call.arg, _parse_price(call.arg))
    /\ UNCHANGED progVars

----------------------------------------------------------------------------
(* captcha_interactive: the price of a card *)

\* What the price selectors find on a card: the digits of the dollars node
\* and of the cents node (<< >> for no node or no digit), the texts of the
\* nodes the price attempts find, in the order of the attempts, and the text
\* of the whole card.
CardTexts ==
    { << >>,
      << Word("now"), Amount(TRUE, 9, 99, 2) >>,
      << Amount(TRUE, 12, 99, 2) >>,
      << Amount(TRUE, 1029, 0, 0) >> }

PriceCards(n) ==
    [dollars   : { << >>, << "1", "0" >>, << "1", "2" >> },
     cents     : { << >>, << "2", "9" >>, << "5" >>, << "9", "9", "5" >> },
     nodes     : SeqsUpTo(CardTexts, n),
     card_text : CardTexts]

\* cents_digits[:2].ljust(2, '0')
TwoPlaces(cents_digits) ==
    IF Len(cents_digits) >= 2 THEN SubSeq(cents_digits, 1, 2)
    ELSE cents_digits \o << "0" >>

\* the dollars and cents nodes combined
SplitPrice(el) ==
    IF el.cents # << >>
    THEN DigitsValue(el.dollars) * 100 + DigitsValue(TwoPlaces(el.cents))
    ELSE DigitsValue(el.dollars) * 100

\* the price of a card: the split nodes first, then the first price node
\* whose text parses, then the text of the card
InteractivePrice(el) ==
    LET parsed == { i \in DOMAIN el.nodes :
                       _parse_price_value(el.nodes[i]) # NoPrice }
    IN  IF el.dollars # << >> THEN SplitPrice(el)
        ELSE IF parsed # {} THEN _parse_price_value(el.nodes[First(parsed)])
        ELSE _parse_price_value(el.card_text)

ParseCardPrice ==
    /\ call.fn = "price" /\ ~ call.done
    /\ call' = Call(call.fn, call.arg, InteractivePrice(call.arg))
    /\ UNCHANGED progVars

----------------------------------------------------------------------------
(* WalmartSpider._attempt_extract *)

\* A text the selectors find: body 0 is the empty text, other bodies are
\* texts with a visible character; pad tells that white space surrounds it.
RawText(pad, body) == [pad |-> pad, body |-> body]
\* str.strip()
StripText(v) == RawText(FALSE, v.body)

\* An attempt on a node: the extract mode, whether the attempt has its attr
\* key, and the texts its selector finds on the node, in document order.
Attempt(extract, attr, found) ==
    [extract |-> extract, attr |-> attr, found |-> found]

AttemptPool ==
    { Attempt("text", FALSE, << >>),
      Attempt("text", FALSE, << RawText(FALSE, 0) >>),
      Attempt("text", FALSE, << RawText(TRUE, 0) >>),
      Attempt("text", FALSE, << RawText(TRUE, 1) >>),
      Attempt("text", FALSE, << RawText(FALSE, 2), RawText(FALSE, 1) >>),
      Attempt("attr", FALSE, << RawText(FALSE, 1) >>),
      Attempt("attr", TRUE, << >>),
      Attempt("attr", TRUE, << RawText(TRUE, 1) >>),
      Attempt("all_attr", FALSE, << RawText(FALSE, 1) >>),
      Attempt("all_attr", TRUE, << RawText(TRUE, 0), RawText(FALSE, 0) >>),
      Attempt("all_attr", TRUE,
              << RawText(TRUE, 1), RawText(FALSE, 0), RawText(FALSE, 2) >>),
      Attempt("html", TRUE, << RawText(FALSE, 1) >>) }

AttemptLists(n) == SeqsUpTo(AttemptPool, n)

\* the values of the code: None, a text, a list of texts
NoneValue == [kind |-> "none", items |-> << >>]
TextValue(v) == [kind |-> "str", items |-> << v >>]
ListValue(vs) == [kind |-> "list", items |-> vs]

\* [v.strip() for v in ... if v and v.strip()]
RECURSIVE StrippedNonEmpty(_)
StrippedNonEmpty(found) ==
    IF found = << >> THEN << >>
    ELSE IF Head(found).body # 0
         THEN << StripText(Head(found)) >> \o StrippedNonEmpty(Tail(found))
         ELSE StrippedNonEmpty(Tail(found))

\* the body of the try block: value stays None when the block raises
Extract(att) ==
    IF att.extract = "text"
    THEN IF att.found = << >> THEN NoneValue
         ELSE TextValue(StripText(att.found[1]))
    ELSE IF att.extract = "attr"
    THEN IF ~ att.attr THEN NoneValue
         ELSE IF att.found = << >> THEN NoneValue
         ELSE TextValue(StripText(att.found[1]))
    ELSE IF att.extract = "all_attr"
    THEN IF ~ att.attr THEN NoneValue
         ELSE ListValue(StrippedNonEmpty(att.found))
    ELSE NoneValue

\* whether the try block of the att raises
Raises(att) ==
    \/ att.extract \in { "attr", "all_attr" } /\ ~ att.attr
    \/ att.extract \notin { "text", "attr", "all_attr" }

\* bool(value)
Truthy(value) ==
    /\ value.kind # "none"
    /\ value.items # << >>
    /\ value.kind = "str" => value.items[1].body # 0

\* the attempt index returned with no value
NoAttempt == 0

\* the loop over the attempts from attempt_idx on
RECURSIVE AttemptLoop(_, _)
AttemptLoop(attempts, attempt_idx) ==
    IF attempt_idx > Len(attempts) THEN << NoneValue, NoAttempt >>
    ELSE IF Truthy(Extract(attempts[attempt_idx]))
         THEN << Extract(attempts[attempt_idx]), attempt_idx >>
    ELSE AttemptLoop(attempts, attempt_idx + 1)

\* faulty variant: an attempt that raises ends the search
_attempt_extract_Abort(attempts) ==
    IF \E i \in DOMAIN attempts :
          /\ Raises(attempts[i])
          /\ \A j \in 1..(i - 1) : ~ Truthy(Extract(attempts[j]))
    THEN << NoneValue, NoAttempt >>
    ELSE AttemptLoop(attempts, 1)

_attempt_extract(attempts) == AttemptLoop(attempts, 1)

AttemptExtract ==
    /\ call.fn = "_attempt_extract" /\ ~ call.done
    /\ call' = Call(call.fn, call.arg, _attempt_extract(call.arg))
    /\ UNCHANGED progVars

----------------------------------------------------------------------------
(* detect_captcha on the text of a page *)

\* The pieces pages are made of here: text without a marker, markers in upper
\* and mixed case, a marker inside a longer word, the two halves of a marker,
\* a marker phrase with a doubled space, and a part of a marker phrase.
PlainText ==
    << "n", "o", "r", "m", "a", "l", " ", "c", "o", "n", "t", "e", "n",
       "t" >>
UpperMarker ==
    << "C", "A", "P", "T", "C", "H", "A" >>
MixedMarker ==
    << "P", "x", "-", "C", "l", "o", "u", "d" >>
TitleMarker ==
    << "A", "r", "e", " ", "Y", "o", "u", " ", "A", " ", "R", "o", "b",
       "o", "t" >>
UrlMarker ==
    << "/", "B", "l", "o", "c", "k", "e", "d", "?", "U", "R", "L", "=" >>
InsideWord ==
    << "C", "h", "a", "l", "l", "e", "n", "g", "e", "s" >>
HalfA ==
    << "c", "a", "p" >>
HalfB ==
    << "t", "c", "h", "a" >>
Spaced ==
    << "P", "l", "e", "a", "s", "e", " ", " ", "v", "e", "r", "i", "f",
       "y" >>
PartOnly ==
    << "r", "o", "b", "o", "t" >>

HtmlPieces ==
    { PlainText, UpperMarker, MixedMarker, TitleMarker, UrlMarker,
      InsideWord, HalfA, HalfB, Spaced, PartOnly }

HtmlInputs(n) == SeqsUpTo(HtmlPieces, n)

\* the text of a page made of pieces
RECURSIVE Join(_)
Join(pieces) ==
    IF pieces = << >> THEN << >> ELSE Head(pieces) \o Join(Tail(pieces))

DetectCaptcha ==
    /\ call.fn = "detect_captcha" /\ ~ call.done
    /\ call' = Call(call.fn, call.arg, detect_captcha(Join(call.arg)))
    /\ UNCHANGED progVars

----------------------------------------------------------------------------
(* scrape: the loop over the products of an attempt's output, on its own *)

\* rows of an output file: complete rows of products 1 and 2, a row of
\* product 1 without image, a row of product 2 with price 0, and a complete
\* row without link
Row(name, price, image, link) ==
    [name |-> name, price |-> price, image |-> image, link |-> link,
     source |-> "listing"]

OutputRows ==
    { Row("n", 1, "i", 1), Row("n", 2, "i", 2), Row("n", 1, "", 1),
      Row("n", 0, "i", 2), Row("n", 1, "i", NoLink) }

Outputs(n) == SeqsUpTo(OutputRows, n)

\* the loop run on products with nothing collected and a fresh seen_links
Gate(products) ==
    KeepLoop([collected |-> << >>, seen_links |-> {}, stopped |-> FALSE],
             products).collected

RunGate ==
    /\ call.fn = "gate" /\ ~ call.done
    /\ call' = Call(call.fn, call.arg, Gate(call.arg))
    /\ UNCHANGED progVars

----------------------------------------------------------------------------
(* scrape._load_scrapy_output *)

\* The content of an output file, line by line.  A line is "[", "]", the
\* object of product id with or without a comma after it, white space only,
\* or the cut-off beginning of an object.
Line(t, id, comma) == [t |-> t, id |-> id, comma |-> comma]

FileLines ==
    { Line("open", 0, FALSE), Line("close", 0, FALSE),
      Line("obj", 1, FALSE), Line("obj", 1, TRUE), Line("obj", 2, FALSE),
      Line("blank", 0, FALSE), Line("cut", 0, FALSE) }

Contents(n) == SeqsUpTo(FileLines, n)

\* the lines of the content that are not white space
RECURSIVE NonBlank(_)
NonBlank(content) ==
    IF content = << >> THEN << >>
    ELSE IF Head(content).t = "blank" THEN NonBlank(Tail(content))
    ELSE << Head(content) >> \o NonBlank(Tail(content))

\* the content as a whole is a JSON array of objects: "[", objects with a
\* comma after each but the last, "]"
IsArray(tokens) ==
    /\ Len(tokens) >= 2
    /\ tokens[1].t = "open"
    /\ tokens[Len(tokens)].t = "close"
    /\ \A i \in 2..(Len(tokens) - 1) :
          tokens[i].t = "obj" /\ (tokens[i].comma <=> i < Len(tokens) - 1)

\* the content as a whole is one JSON object
IsObject(tokens) ==
    Len(tokens) = 1 /\ tokens[1].t = "obj" /\ ~ tokens[1].comma

\* what the function returns: a list of rows or a single object; "error"
\* stands for an exception leaving the function
Loaded(kind, rows) == [kind |-> kind, rows |-> rows]

\* json.loads(line) of a stripped, non-empty line succeeds
LineParses(line) == line.t = "obj" /\ ~ line.comma

\* faulty variant: a line that does not parse ends the load with its error
RECURSIVE LineLoop_Strict(_, _)
LineLoop_Strict(parsed, lines) ==
    IF lines = << >> THEN Loaded("list", parsed)
    ELSE IF Head(lines).t = "blank" THEN LineLoop_Strict(parsed, Tail(lines))
    ELSE IF LineParses(Head(lines))
         THEN LineLoop_Strict(Append(parsed, Head(lines).id), Tail(lines))
    ELSE Loaded("error", << >>)

\* the loop over content.splitlines()
RECURSIVE LineLoop(_, _)
LineLoop(parsed, lines) ==
    IF lines = << >> THEN Loaded("list", parsed)
    ELSE IF Head(lines).t = "blank" THEN LineLoop(parsed, Tail(lines))
    ELSE IF LineParses(Head(lines))
         THEN LineLoop(Append(parsed, Head(lines).id), Tail(lines))
    ELSE LineLoop(parsed, Tail(lines))

\* faulty variant of the fallback: see LineLoop_Strict
Fallback_Strict(content) == LineLoop_Strict(<< >>, content)

\* the except branch: the rows of the lines that parse
Fallback(content) == LineLoop(<< >>, content)

\* json.loads(content), and the fallback on JSONDecodeError
_load_scrapy_output(content) ==
    LET tokens == NonBlank(content) IN
    IF IsArray(tokens)
    THEN Loaded("list", [i \in 1..(Len(tokens) - 2) |-> tokens[i + 1].id])
    ELSE IF IsObject(tokens) THEN Loaded("dict", << tokens[1].id >>)
    ELSE Fallback(content)

LoadScrapyOutput ==
    /\ call.fn = "_load_scrapy_output" /\ ~ call.done
    /\ call' = Call(call.fn, call.arg, _load_scrapy_output(call.arg))
    /\ UNCHANGED progVars

----------------------------------------------------------------------------
(* The functions under study *)

\* the inputs of a function under study, up to its bound
Inputs(fn) ==
    CASE fn = "_normalize_product_link" -> RawLinks(MaxNest)
      [] fn = "_parse_price_value" -> PriceTexts(MaxTextLen)
      [] fn = "_parse_price" -> PriceTexts(MaxTextLen)
      [] fn = "price" -> PriceCards(MaxPriceNodes)
      [] fn = "_attempt_extract" -> AttemptLists(MaxSelectors)
      [] fn = "detect_captcha" -> HtmlInputs(MaxPieces)
      [] fn = "gate" -> Outputs(MaxOutput)
      [] fn = "_load_scrapy_output" -> Contents(MaxLines)

Functions ==
    { "_normalize_product_link", "_parse_price_value", "_parse_price",
      "price", "_attempt_extract", "detect_captcha", "gate",
      "_load_scrapy_output" }

\* a function is about to be applied to one of its inputs
InitFunctions ==
    /\ \E fn \in Functions : call \in { Pending(fn, arg) : arg \in Inputs(fn) }
    /\ num_products \in (IF call.fn = "gate" THEN 1..MaxTarget ELSE { 1 })
    /\ min_price = 0
    /\ max_price = Inf
    /\ debug = FALSE
    /\ site = AnySite
    /\ app_storage = "absent"
    /\ spider_storage = FALSE
    /\ db_faulty = FALSE
    /\ InitRest

NextFunctions ==
    \/ NormalizeProductLink
    \/ ParsePriceValue
    \/ SpiderParsePrice
    \/ ParseCardPrice
    \/ AttemptExtract
    \/ DetectCaptcha
    \/ RunGate
    \/ LoadScrapyOutput

SpecFunctions == InitFunctions /\ [][NextFunctions]_vars

----------------------------------------------------------------------------
(* Properties *)

Running == opc = "crawl"
Done    == opc = "done"
Failed  == opc = "error"

DistinctLinks(recs) ==
    \A i, j \in DOMAIN recs : i # j => recs[i].link # recs[j].link

\* C1: in every successful response no two records of products share a link,
\* and the same holds of the records collected so far at every moment
C1_UniqueLinks ==
    /\ DistinctLinks(collected)
    /\ resp.status = 200 => DistinctLinks(resp.products)

\* a response with two records, gathered over more than one attempt
C1_Witness ==
    /\ Done
    /\ attempt >= 2
    /\ Len(resp.products) = 2

Complete(rec) ==
    /\ rec.name # ""
    /\ rec.price # NoPrice
    /\ rec.image # ""
    /\ rec.link # NoLink
    /\ min_price <= rec.price
    /\ rec.price <= max_price

\* C2: every record the spider emits and every record the /scrape loop keeps
\* has name, price, image and link, and a price within [min_price, max_price]
C2_GateComplete ==
    /\ \A i \in DOMAIN items : Complete(items[i])
    /\ \A i \in DOMAIN collected : Complete(collected[i])
    /\ \A i \in DOMAIN resp.products : Complete(resp.products[i])

\* records of all three extraction paths have been kept
C2_Witness ==
    /\ Done
    /\ \E i \in DOMAIN resp.products :
          resp.products[i].source = "detail_enrichment"
    /\ \E i \in DOMAIN resp.products :
          resp.products[i].source \in {"json_extraction", "dom_scrape"}

\* C3: the attempt loop terminates: at most 3 attempts are started, none is
\* started once collected >= target, and the run ends satisfied, exhausted
\* or with an error response
C3_LoopTerminates ==
    /\ [](attempt <= 3)
    /\ [][attempt' # attempt =>
             (attempt' = attempt + 1 /\ Len(collected) < num_products)]_vars
    /\ [](Done => (Len(collected) = num_products \/ attempt = 3))
    /\ [](Len(collected) <= num_products)
    /\ <>(Done \/ Failed)

\* a run that ends exhausted: three attempts and still short of the target
C3_Witness ==
    /\ Done
    /\ attempt = 3
    /\ Len(collected) < num_products

C4Case ==
    /\ num_products = 10
    /\ site.per_page = 3
    /\ ~ site.partial

\* C4 as stated: with target 10 and 3 fresh valid cards per page the run ends
\* after all 3 attempts with 9 records and shortfall 1
C4_Original ==
    (C4Case /\ Done) =>
        /\ attempt = 3
        /\ resp.count = 9
        /\ resp.shortfall = 1

\* C4 amended: with target 10 and 3 fresh valid cards per page the run ends
\* after the first attempt, which reads pages 1..4 of its 8-page budget, with
\* 10 records and no shortfall; it never loops indefinitely
C4_EndsInFirstAttempt ==
    /\ []((C4Case /\ Done) =>
            /\ attempt = 1
            /\ pages_processed = 4
            /\ resp.count = 10
            /\ resp.shortfall = NoShortfall)
    /\ [](C4Case => attempt <= 1)
    /\ <>Done

C4_Witness ==
    /\ C4Case
    /\ Done
    /\ resp.count = 10

\* C5 as stated: within one spider run results_found never exceeds
\* num_products, whatever the interleaving of parse and parse_product_detail
C5_Original == results_found <= sp_num_products

C6Case ==
    /\ site.kind # "any"
    /\ ~ site.partial
    /\ num_products <= site.per_page
    /\ attempt = 1
    /\ pages_processed >= 1

FirstCards(n) ==
    [i \in 1..n |->
        Product(UniformCard(1, i, site),
                IF site.kind = "json" THEN "json_extraction" ELSE "dom_scrape")]

\* C6: on a listing page of N complete, distinct, in-band cards and a target
\* T <= N, parse emits exactly the first T cards in card order, requests no
\* next page and no detail page, and the run reports no shortfall
C6_FirstTCards ==
    C6Case =>
        /\ items = FirstCards(num_products)
        /\ pages_processed = 1
        /\ listing_req = NoPage
        /\ detail_reqs = {}
        /\ Done => /\ resp.products = FirstCards(num_products)
                   /\ resp.count = num_products
                   /\ resp.shortfall = NoShortfall

\* target 2 against a page of 3 cards: the third card stays unused
C6_Witness ==
    /\ C6Case
    /\ Done
    /\ num_products = 2
    /\ site.per_page = 3

Ascending(recs) ==
    \A i, j \in DOMAIN recs : i < j => recs[i].link < recs[j].link

\* C7 as stated: records appear in first-discovery order (page order, then
\* card order), also those completed by detail enrichment; on a uniform site
\* the links grow in discovery order, so the links of the feed must grow
C7_Original ==
    (site.kind # "any" /\ attempt = 1) =>
        /\ Ascending(items)
        /\ Done => Ascending(resp.products)

\* C8 as stated: a timeout during attempt k < max_attempts aborts only that
\* attempt, so the run never ends with the timeout error while attempts remain
C8_Original == ~ (resp.status = 504 /\ attempt < max_attempts)

\* C9: in a successful response count is the number of products and at most
\* requested_count; shortfall is present exactly when count < requested_count
\* and then equals requested_count - count
C9_CountAndShortfall ==
    resp.status = 200 =>
        /\ resp.count = Len(resp.products)
        /\ resp.count <= resp.requested_count
        /\ resp.requested_count = num_products
        /\ (resp.shortfall # NoShortfall) <=> (resp.count < resp.requested_count)
        /\ resp.shortfall # NoShortfall =>
               resp.shortfall = resp.requested_count - resp.count

C9_Witness ==
    /\ resp.status = 200
    /\ resp.count = 1
    /\ resp.shortfall = 1

\* C10: the page budget of the spider is 8, 12, 16 on attempts 1, 2, 3, and
\* each attempt asks for the remaining count, which is at least 1
C10_PageBudget ==
    /\ attempt = 1 => max_pages = 8
    /\ attempt = 2 => max_pages = 12
    /\ attempt = 3 => max_pages = 16
    /\ Running =>
          /\ sp_num_products = num_products - Len(collected)
          /\ sp_num_products >= 1

\* the third attempt asks for the one record still missing
C10_Witness ==
    /\ Running
    /\ attempt = 3
    /\ max_pages = 16
    /\ num_products = 2
    /\ sp_num_products = 1

\* a step of parse: the callback ran on the response of a listing request
ParseStep == Running /\ pages_processed' = pages_processed + 1

\* C11: a crawl processes at most max_pages listing pages; parse issues a
\* next-page request only while results_found < num_products and the page
\* number of the response is below max_pages, and the page number of the
\* request is one more than that of the response, with a 'Next Page' link
\* or without one
C11_Original ==
    [][ ParseStep =>
          /\ pages_processed' <= max_pages
          /\ listing_req' # NoPage =>
                /\ results_found' < sp_num_products
                /\ listing_req < max_pages
                /\ listing_req' = listing_req + 1 ]_vars

\* C12: when some page fetched during the run was a challenge page, the
\* success response carries captcha_detected = true, whatever records were
\* extracted and whether or not debug capture was requested
C12_Original ==
    (Done /\ blocked_fetched) => resp.captcha_detected

\* the step in which scrape leaves its loop and returns
FinishStep == opc = "loop" /\ opc' \in { "done", "error" }

\* the store raised a database error in that step: there were records to
\* persist and no row was committed
DbErrorStep == FinishStep /\ last_save'.products # << >> /\ db' = db

\* C13: when the store raises a database error while the records of the run
\* are persisted, scrape returns a success response with the count,
\* products, requested_count and shortfall of a run whose persistence
\* succeeded
C13_SuccessDespiteDbError ==
    [][ DbErrorStep =>
          /\ resp'.status = 200
          /\ resp'.products = Take(collected, num_products)
          /\ resp'.count = Len(resp'.products)
          /\ resp'.requested_count = num_products
          /\ resp'.shortfall = IF resp'.count < num_products
                               THEN num_products - resp'.count
                               ELSE NoShortfall ]_vars

\* a response with two records of which the store kept none: the error was
\* raised while the second was handled
C13_Witness ==
    /\ Done
    /\ resp.count = 2
    /\ Len(resp.saved) = 1
    /\ db = EmptyDb

\* a call of the store returned
SaveStep == last_save' # last_save \/ db' # db

\* at most one Product row for each non-empty link
UniqueRows(rows) ==
    \A r, q \in rows : (r.link # NoLink /\ r.link = q.link) => r = q

\* the entries of a call before entry k that have the link of entry k
Earlier(products, k) ==
    { j \in 1..(k - 1) : products[j].link = products[k].link }

\* every entry of the call for a non-empty link reports created when the
\* link is not among known and in no earlier entry, else updated; an entry
\* reports the row id of the earlier entries of its link, and after the call
\* the row of that link has that id
UpsertReports(known, products, saved, rows) ==
    \A k \in DOMAIN saved :
       products[k].link # NoLink =>
          /\ saved[k].action =
                IF products[k].link \in known \/ Earlier(products, k) # {}
                THEN "updated" ELSE "created"
          /\ \A j \in Earlier(products, k) : saved[j].id = saved[k].id
          /\ Len(saved) = Len(products) =>
                \A r \in rows : r.link = products[k].link => r.id = saved[k].id

\* C14: after any sequence of calls the store holds at most one Product row
\* for each non-empty link; the first upsert of a link reports created, and
\* every later upsert of it, in the same batch or a later one, reports
\* updated with the same row id
C14_Original ==
    [][ SaveStep =>
          /\ UniqueRows(db'.products)
          /\ UpsertReports(upserted, last_save'.products, last_save'.saved,
                           db'.products)
      ]_vars

CommittedLinks == { r.link : r \in db.products } \ { NoLink }

\* C14, amended: the same with "first" and "later" counted over the rows the
\* store holds, that is over the upserts of the batches that were committed
C14_UpsertCommitted ==
    [][ SaveStep =>
          /\ UniqueRows(db'.products)
          /\ UpsertReports(CommittedLinks, last_save'.products,
                           last_save'.saved, db'.products)
      ]_vars

\* a batch that names a stored link twice was committed: two entries
\* updated with the id of the one row of that link
C14_Witness ==
    /\ Len(last_save.saved) = 2
    /\ last_save.products[1].link = 1
    /\ last_save.products[2].link = 1
    /\ last_save.saved[1].action = "updated"
    /\ last_save.saved[2].action = "updated"
    /\ last_save.saved[1].id = last_save.saved[2].id
    /\ \E r \in db.products : r.link = 1 /\ r.id = last_save.saved[1].id

\* the human-assisted run has returned; a run that left its start has
\* opened a browsing session, and the session is closed when it returns
SessionEnded == ipc = "returned"

StatePersisted == app_storage = "this_run"

\* C15: every run of the human-assisted flow that opened a browsing session
\* has persisted the session state when the session ends, also after a
\* navigation timeout, a timeout of the wait for product markers, or a
\* failed card extraction
C15_Original == SessionEnded => StatePersisted

\* C17: the response of the human-assisted flow contains storage_state
\* exactly when this run persisted the session state; a run whose save
\* failed reports none, even if a file of an earlier run exists
C17_Original == SessionEnded => (iresp.storage_state <=> StatePersisted)

\* C16: when the storage-state file exists every request the spider issues,
\* for the first listing page, a next listing page or a detail page, carries
\* it as the storageState of its browser context; when the file is absent
\* no request carries one
C16_Original ==
    \A q \in issued : q.storage_state = spider_storage

\* a step of parse_product_detail that emitted the merged record
DetailAccepted ==
    /\ Running
    /\ Len(items') = Len(items) + 1
    /\ items'[Len(items')].source = "detail_enrichment"

\* the partial candidate of the detail request answered in this step
AnsweredPartials == detail_reqs \ detail_reqs'

\* C18: in the merged record of detail-page enrichment every field the
\* partial candidate already had keeps the value it had before; values of
\* the detail page are used only for the fields that were missing
C18_Original ==
    [][ DetailAccepted =>
          \A partial \in AnsweredPartials :
             LET merged == items'[Len(items')] IN
             /\ partial.name # "" => merged.name = partial.name
             /\ partial.price \notin { NoPrice, 0 } =>
                   merged.price = partial.price
             /\ partial.image # "" => merged.image = partial.image
             /\ partial.link # NoLink => merged.link = partial.link ]_vars

\* on a uniform site: the page that parse is called with in this step
ParsedPage == UniformPage(CurrentPage(url_page), site)

\* the candidates of that page that miss a mandatory field
Incomplete(page) ==
    { page.cards[i] : i \in { j \in DOMAIN page.cards :
                                 _required_missing(page.cards[j]) # {} } }

EmittedLinks(its) == { its[k].link : k \in DOMAIN its }

\* C19: every candidate of a listing page, structured or DOM, that misses a
\* mandatory field and has a link gets a detail-page request and is neither
\* emitted nor rejected on the listing page; one that has no link is
\* rejected.  Stated for the pages on which the target is not reached, so
\* that the loop looks at every candidate
C19_Original ==
    [][ (ParseStep /\ results_found' < sp_num_products) =>
          \A c \in Incomplete(ParsedPage) :
             /\ c.link \notin EmittedLinks(items')
             /\ IF c.link # NoLink /\ c.link \notin sp_seen_links
                THEN \E partial \in detail_reqs' : partial.link = c.link
                ELSE \A partial \in detail_reqs' \ detail_reqs :
                        partial.link # c.link ]_vars

\* a step that takes a detail request off the outstanding ones and emits
\* nothing: the request failed, or its merged record was dropped
DetailDropped ==
    /\ Running
    /\ Cardinality(detail_reqs') < Cardinality(detail_reqs)
    /\ items' = items

\* C20: a failed or timed-out detail request affects only its own
\* candidate: seen_links and results_found stay as they are, the other
\* detail requests and the next listing request stay outstanding, and the
\* crawl goes on
C20_DetailFailureIsLocal ==
    [][ DetailDropped =>
          /\ sp_seen_links' = sp_seen_links
          /\ results_found' = results_found
          /\ detail_reqs' \subseteq detail_reqs
          /\ Cardinality(detail_reqs \ detail_reqs') = 1
          /\ listing_req' = listing_req
          /\ url_page' = url_page
          /\ pages_processed' = pages_processed
          /\ opc' = opc ]_vars

\* page 1 had a card with a link and no price, and a complete card with
\* another link; the detail request of the first failed (its response would
\* have been accepted), the second card was accepted and page 2 is requested
C20_Witness ==
    /\ Running
    /\ num_products = 2 /\ attempt = 1
    /\ pages_processed = 1
    /\ DetailMeta \in issued
    /\ detail_reqs = {}
    /\ results_found = 1
    /\ sp_seen_links = {2}
    /\ Len(items) = 1 /\ items[1].source = "dom_scrape"
    /\ listing_req = 2

\* C21: within one attempt at most one listing request is outstanding: the
\* run starts with the request of page 1, a run of parse adds at most one
\* request, and adds it only when the count after the loop over the
\* candidates of the page is below the target; so the requests enqueued
\* exceed the responses handled by at most one
C21_OneListingRequest ==
    [][ /\ (attempt' # attempt => fingerprints' = {1} /\ listing_req' = 1)
        /\ (ParseStep =>
              /\ Cardinality(fingerprints' \ fingerprints) <= 1
              /\ fingerprints' # fingerprints =>
                    /\ results_found' < sp_num_products
                    /\ url_page' \in fingerprints' \ fingerprints)
        /\ (Running /\ Running' =>
              Cardinality(fingerprints') - pages_processed' <= 1) ]_vars

\* parse accepted a record of page 1 and then requested page 2, which is the
\* only request outstanding
C21_Witness ==
    /\ Running
    /\ pages_processed = 1
    /\ results_found = 1 /\ sp_num_products = 2
    /\ fingerprints = {1, 2}
    /\ listing_req = 2

ProbeInts == { -10, -1, 0, 1, 9, 10, 11, 99, 100, 101, 110, 999 }

\* a numProducts field that int() refuses
NotAnInteger(field) ==
    /\ field.present
    /\ \/ field.text = << "-" >>
       \/ \E i \in DOMAIN field.text : field.text[i] = "x"
       \/ \E i \in DOMAIN field.text : i > 1 /\ field.text[i] = "-"

\* C23: the target of a /scrape request lies in 1..100: an integer field is
\* clamped into that range, a missing, empty or non-integer field gives 10;
\* the attempt loop uses that target and the response reports it as
\* requested_count
C23_TargetClamped ==
    /\ [](call.fn = "numProducts" =>
            /\ num_products \in 1..100
            /\ \A n \in ProbeInts :
                  (call.arg.present /\ call.arg.text = Str(n)) =>
                     num_products = (IF n < 1 THEN 1
                                     ELSE IF n > 100 THEN 100 ELSE n)
            /\ (~ call.arg.present \/ call.arg.text = << >>
                  \/ NotAnInteger(call.arg)) => num_products = 10
            /\ Done => resp.requested_count = num_products)
    /\ [][ /\ num_products' = num_products
           /\ attempt' # attempt =>
                 sp_num_products' = num_products - Len(collected) ]_vars

\* the field "0" gave the target 1, and the run returned with it
C23_Witness ==
    /\ call.fn = "numProducts"
    /\ call.arg = Field(TRUE, << "0" >>)
    /\ Done
    /\ resp.requested_count = 1

\* C24: every record a run returns has a canonical link, tracking redirects
\* resolved, so that no two records of a response are the same product
C24_Original ==
    Done =>
       /\ \A i \in DOMAIN resp.products : ~ IsTracking(resp.products[i].link)
       /\ \A i, j \in DOMAIN resp.products :
             ProductOf(resp.products[i].link) = ProductOf(resp.products[j].link)
                => i = j

\* a link whose path is /sp/track, in whatever form
Wrapper(link) == link.kind = "track"

\* C25: the link canonicalizer maps a relative link to the absolute URL on
\* the origin, maps a tracking link to the absolute product URL named by its
\* rd parameter, else by a raw /ip/ path in it, returns every other link
\* unchanged, and applied to its own output returns that output
C25_Original ==
    (call.fn = "_normalize_product_link" /\ call.done
       /\ call.arg # NoneLink) =>
       /\ (call.arg.form = "rel" /\ ~ Wrapper(call.arg)) =>
             call.ret = [Strip(call.arg) EXCEPT !.form = "abs"]
       /\ (call.arg.form \in { "abs", "bare" } /\ ~ Wrapper(call.arg)) =>
             call.ret = Strip(call.arg)
       /\ (Wrapper(call.arg) /\ call.arg.form # "bare" /\ call.arg.rd # << >>
             /\ call.arg.rd[1].kind = "ip" /\ call.arg.rd[1].form # "bare") =>
             call.ret = LinkText(FALSE, "abs", "ip", call.arg.rd[1].id, << >>, 0)
       /\ (Wrapper(call.arg) /\ call.arg.form # "bare" /\ call.arg.rd = << >>
             /\ call.arg.emb # 0) =>
             call.ret = LinkText(FALSE, "abs", "ip", call.arg.emb, << >>, 0)
       /\ _normalize_product_link(call.ret) = call.ret

\* ---- C26 ----
\* C26: both price parsers give 12.34 for '$12.34', 9.99 for 'Now $9.99' and
\* 10.29 for 'current price $10.29 $12.99', and no price at all (None, never
\* 0) for a text without a number, the empty text included; a card whose
\* dollars node reads '10' and whose cents node reads '29' has price 10.29.
C26_PriceTable ==
    /\ (call.done /\ call.fn \in { "_parse_price_value", "_parse_price" }) =>
          /\ call.arg = << Amount(TRUE, 12, 34, 2) >> => call.ret = 1234
          /\ call.arg = << Word("now"), Amount(TRUE, 9, 99, 2) >> =>
                call.ret = 999
          /\ call.arg = << Word(CurrentPrice), Amount(TRUE, 10, 29, 2),
                           Amount(TRUE, 12, 99, 2) >> => call.ret = 1029
          /\ (\A i \in DOMAIN call.arg : call.arg[i].t # "amt") =>
                call.ret = NoPrice /\ call.ret # 0
    /\ (call.done /\ call.fn = "price") =>
          ((call.arg.dollars = << "1", "0" >> /\ call.arg.cents = << "2", "9" >>)
             => call.ret = 1029)

\* the labeled price of a text with a trailing strike-through price was parsed
C26_Witness ==
    /\ call.done
    /\ call.fn = "_parse_price_value"
    /\ call.arg = << Word(CurrentPrice), Amount(TRUE, 10, 29, 2),
                     Amount(TRUE, 12, 99, 2) >>
    /\ call.ret = 1029

\* ---- C27 ----
\* the text the price of a card without split nodes is parsed from
PriceSource(el) ==
    LET parsed == { i \in DOMAIN el.nodes :
                       _parse_price_value(el.nodes[i]) # NoPrice }
    IN  IF parsed # {} THEN el.nodes[First(parsed)] ELSE el.card_text

\* C27 as stated: of the encodings a card offers, a decimal price after a
\* label is chosen first, then the split dollars and cents nodes, then a
\* decimal amount with a currency sign, then an integer amount.
C27_Original ==
    (call.done /\ call.fn = "price") =>
       LET el == call.arg
           text == PriceSource(el)
           labeled == Labeled(text, DiscountLabels \cup { CurrentPrice },
                              TwoDecimals(text))
           decimals == DollarDecimal(text)
           integers == Dollar(text)
       IN  /\ labeled # {} =>
                call.ret \in { Cents(text[i + 1]) : i \in labeled }
           /\ (labeled = {} /\ el.dollars # << >>) =>
                call.ret = SplitPrice(el)
           /\ (labeled = {} /\ el.dollars = << >> /\ decimals # {}) =>
                call.ret \in { Cents(text[i]) : i \in decimals }
           /\ (labeled = {} /\ el.dollars = << >> /\ decimals = {}
                 /\ integers # {}) =>
                call.ret \in { text[i].whole : i \in integers }
                               \cup { text[i].whole * 100 : i \in integers }

\* ---- C28 ----
\* C28 as stated: in a text without the 'current price' label, a discount
\* label included, an amount without decimals counts whole currency units.
C28_Original ==
    (/\ call.done /\ call.fn = "_parse_price_value"
     /\ ~ HasCurrentPrice(call.arg)
     /\ \A i \in Amounts(call.arg) : call.arg[i].flen = 0
     /\ call.ret # NoPrice) =>
       call.ret \in { call.arg[i].whole * 100 : i \in Amounts(call.arg) }

\* ---- C29 ----
\* the attempts that, run alone, do not raise and give a non-empty value
Yielding(attempts) ==
    { i \in DOMAIN attempts :
         ~ Raises(attempts[i]) /\ Truthy(Extract(attempts[i])) }

\* C29: _attempt_extract returns the value of the lowest-index attempt that
\* yields a non-empty value, with the 1-based index of that attempt, whatever
\* the attempts before it did (raise, find nothing, find blank text); when no
\* attempt yields a value it returns (None, None).
C29_FirstYieldingAttempt ==
    (call.done /\ call.fn = "_attempt_extract") =>
       LET attempts == call.arg
           yielding == Yielding(attempts)
       IN  IF yielding = {}
           THEN call.ret = << NoneValue, NoAttempt >>
           ELSE /\ call.ret[2] = First(yielding)
                /\ call.ret[2] >= 1
                /\ call.ret[1] = Extract(attempts[First(yielding)])
                /\ Truthy(call.ret[1])

\* the first attempt raised and the second one gave the value
C29_Witness ==
    /\ call.done
    /\ call.fn = "_attempt_extract"
    /\ Len(call.arg) = 2
    /\ Raises(call.arg[1])
    /\ call.ret = << TextValue(RawText(FALSE, 1)), 2 >>

\* ---- C30 ----
\* the pieces whose lower-cased text contains a marker
MarkedPieces == { UpperMarker, MixedMarker, TitleMarker, UrlMarker, InsideWord }

\* C30: detect_captcha is true exactly for a non-empty text whose lower-cased
\* form contains a marker: a marker written in any case, inside a longer word
\* or made of two adjacent pieces counts, a phrase with a doubled space or a
\* part of a phrase does not; the empty text and the normal page give false.
C30_DetectCaptcha ==
    (call.done /\ call.fn = "detect_captcha") =>
       /\ call.ret =
             \E i \in DOMAIN call.arg :
                \/ call.arg[i] \in MarkedPieces
                \/ i < Len(call.arg) /\ call.arg[i] = HalfA
                     /\ call.arg[i + 1] = HalfB
       /\ call.arg = << >> => call.ret = FALSE
       /\ call.arg = << PlainText >> => call.ret = FALSE

\* a marker written in capitals after normal text was detected
C30_Witness ==
    /\ call.done
    /\ call.fn = "detect_captcha"
    /\ call.arg = << PlainText, UpperMarker >>
    /\ call.ret = TRUE

\* ---- C31 ----
\* C31: the loop of /scrape over a sequence of rows, started with nothing
\* collected and a fresh seen_links, keeps complete rows with pairwise
\* different links, and run again on what it kept, again with a fresh
\* seen_links, it keeps exactly the same sequence.
C31_GateIdempotent ==
    (call.done /\ call.fn = "gate") =>
       /\ Gate(call.ret) = call.ret
       /\ \A i \in DOMAIN call.ret : _product_is_valid(call.ret[i])
       /\ \A i, j \in DOMAIN call.ret :
             call.ret[i].link = call.ret[j].link => i = j

\* the loop dropped an incomplete row and a duplicate and kept one row
C31_Witness ==
    /\ call.done
    /\ call.fn = "gate"
    /\ num_products = 2
    /\ call.arg = << Row("n", 1, "", 1), Row("n", 1, "i", 1),
                     Row("n", 1, "i", 1) >>
    /\ call.ret = << Row("n", 1, "i", 1) >>

\* ---- C32 ----
\* the lines of a content that parse as JSON on their own
ParsableLines(content) ==
    { i \in DOMAIN content : content[i].t = "obj" /\ ~ content[i].comma }

\* the k-th smallest element of a set of numbers
Kth(S, k) == CHOOSE i \in S : Cardinality({ j \in S : j < i }) = k - 1

\* C32: loading a file never ends in an error.  A content that is valid JSON
\* as a whole (an array of objects, a single object) gives its value; any
\* other content, the empty file and a file cut off while being written
\* included, gives the rows of the lines that parse on their own, in file
\* order, with every other line skipped.
C32_LoadNeverFails ==
    (call.done /\ call.fn = "_load_scrapy_output") =>
       LET content == call.arg
           tokens == NonBlank(content)
           lines == ParsableLines(content)
       IN  /\ call.ret.kind # "error"
           /\ IsArray(tokens) =>
                 /\ call.ret.kind = "list"
                 /\ Len(call.ret.rows) = Len(tokens) - 2
                 /\ \A k \in DOMAIN call.ret.rows :
                       call.ret.rows[k] = tokens[k + 1].id
           /\ IsObject(tokens) => call.ret = Loaded("dict", << tokens[1].id >>)
           /\ (~ IsArray(tokens) /\ ~ IsObject(tokens)) =>
                 /\ call.ret.kind = "list"
                 /\ Len(call.ret.rows) = Cardinality(lines)
                 /\ \A k \in DOMAIN call.ret.rows :
                       call.ret.rows[k] = content[Kth(lines, k)].id
           /\ content = << >> => call.ret = Loaded("list", << >>)

\* an array cut off after its second object: only the last line parses
C32_Witness ==
    /\ call.done
    /\ call.fn = "_load_scrapy_output"
    /\ call.arg = << Line("open", 0, FALSE), Line("obj", 1, TRUE),
                     Line("obj", 2, FALSE) >>
    /\ call.ret = Loaded("list", << 2 >>)

\* ---- C33 ----
\* the crawl of the running attempt ended in a timeout, a non-zero exit
\* status or a missing output file
CrawlError == opc = "crawl" /\ opc' = "error"

\* C33: when the crawl of an attempt times out, exits non-zero or leaves no
\* output file, the handler answers at once with 504 'Scraping timed out',
\* 500 'Scrapy failed' or 500 'Scrape output missing' (the last only after a
\* crawl that ended with no item); the answer holds no product, whatever
\* earlier attempts collected, the store is not called, and nothing follows:
\* no attempt is started after the answer.
C33_CrawlErrorEndsRun ==
    [][ /\ CrawlError =>
            /\ << resp'.status, resp'.error >> \in
                  { << 504, "Scraping timed out" >>,
                    << 500, "Scrapy failed" >>,
                    << 500, "Scrape output missing" >> }
            /\ resp'.error = "Scrape output missing" =>
                  SpiderIdle /\ items = << >>
            /\ resp'.products = << >> /\ resp'.count = 0
            /\ resp'.saved = << >>
            /\ db' = db /\ last_save' = last_save /\ upserted' = upserted
            /\ attempt' = attempt /\ collected' = collected
        /\ opc # "error" ]_vars

\* the second attempt timed out after the first one had collected a product
C33_Witness ==
    /\ opc = "error"
    /\ attempt = 2
    /\ Len(collected) >= 1
    /\ resp.status = 504
    /\ resp.error = "Scraping timed out"
    /\ resp.products = << >>
    /\ upserted = {}

\* ---- C34 ----
\* the script of the pages yields no candidate: there is none, it cannot be
\* read, keys are missing, or it holds no entry
NoCandidates ==
    site.blob \in { "absent", "malformed", "null_key", "missing_keys",
                    "no_items" }

\* an item came from the div[data-item-id] cards of a listing page
DomItem == \E i \in DOMAIN items : items[i].source = "dom_scrape"

\* C34 as stated: once the first page of a crawl is processed, the complete
\* DOM card of the page has been emitted if the script of the page yielded no
\* candidate, and no DOM card has been read (no item of the DOM, no detail
\* request) if it yielded one.
C34_Original ==
    (site.kind = "blob" /\ opc = "crawl" /\ pages_processed >= 1) =>
       IF NoCandidates THEN DomItem
       ELSE ~ DomItem /\ detail_reqs = {}

\* the links of the records a step of the spider emits
Emitted == { items'[k].link : k \in (Len(items) + 1) .. Len(items') }

\* C35: in every state of a spider run results_found is the size of
\* seen_links; within a run seen_links only grows, the records emitted so far
\* stay, and the links a step adds to seen_links are exactly the links of the
\* records that step emits, one record per link.
C35_SeenLinksCountEmitted ==
    /\ [](results_found = Cardinality(sp_seen_links))
    /\ [][(Running /\ Running')
            => /\ sp_seen_links \subseteq sp_seen_links'
               /\ Len(items') >= Len(items)
               /\ SubSeq(items', 1, Len(items)) = items
               /\ sp_seen_links' \ sp_seen_links = Emitted
               /\ Len(items') - Len(items) = Cardinality(Emitted)]_vars

\* a run that emitted a record while a candidate is pending enrichment and its
\* link is not in seen_links
C35_Witness ==
    /\ Running
    /\ results_found >= 1
    /\ \E partial \in detail_reqs : partial.link \notin sp_seen_links

\* the fetches in flight for the detail page of a link
InFlight(link) == { partial \in detail_reqs : partial.link = link }

\* the records emitted for a link
EmittedFor(link) == { k \in 1..Len(items) : items[k].link = link }

\* C36: within one spider run no two emitted records share a link, whatever
\* the order of the listing and detail callbacks; a detail callback for a
\* link that is already in seen_links emits nothing, so of two fetches in
\* flight for one link at most one produces a record.
C36_OneRecordPerLink ==
    /\ [](\A j, k \in 1..Len(items) : items[j].link = items[k].link => j = k)
    /\ [][\A partial \in detail_reqs :
             (Running /\ Running' /\ partial.link \in sp_seen_links
                /\ detail_reqs' = detail_reqs \ {partial})
             => items' = items]_vars

\* two fetches were in flight for link 1; one has completed and produced the
\* record of the link, the other is still in flight
C36_Witness ==
    /\ Running
    /\ Cardinality(InFlight(1)) = 1
    /\ \E k \in EmittedFor(1) : items[k].source = "detail_enrichment"
    /\ Cardinality(sp_seen_links) = 1

\* attempt 1 has ended with c records, c < target and target - c <= c, on a
\* site without cards that need enrichment
Stalled ==
    /\ ~ site.partial
    /\ attempt >= 2 \/ (attempt = 1 /\ opc = "loop")
    /\ Len(collected) < num_products
    /\ num_products - Len(collected) <= Len(collected)

\* C37: every attempt starts a fresh spider at page 1 with an empty
\* seen_links and the remaining count as its target; on a site that serves
\* the same pages on every attempt and needs no detail enrichment, once
\* attempt 1 has ended with c < target records and target - c <= c, no later
\* step adds a record and the response reports count c and shortfall
\* target - c.
C37_RetriesAddNothing ==
    [][ /\ attempt' # attempt
           => /\ url_page' = 1 /\ listing_req' = 1
              /\ sp_seen_links' = {} /\ results_found' = 0
              /\ sp_num_products' = num_products - Len(collected)
        /\ Stalled
           => /\ collected' = collected
              /\ opc' = "done" /\ opc # "done"
                 => /\ resp'.count = Len(collected)
                    /\ resp'.shortfall = num_products - Len(collected) ]_vars

\* a run that ended after three attempts, the later two with larger page
\* budgets, with the records of attempt 1 and a shortfall no larger than
\* their number
C37_Witness ==
    /\ opc = "done"
    /\ ~ site.partial
    /\ attempt = max_attempts
    /\ max_pages > BasePages
    /\ resp.shortfall >= 1
    /\ resp.shortfall <= resp.count
    /\ site.next_link

\* candidates with every field extracted and a price parsed as 0
ZeroPriced ==
    { Product(Card("n", 0, "i", l, "Product"), src) :
         l \in Links, src \in { "json_extraction", "dom_scrape" } }

\* C38: a candidate whose parsed price is 0 counts as missing its price: the
\* spider's gate and the accept loop of /scrape both refuse it, also under a
\* price band that starts at 0, and no record emitted by the spider, kept by
\* the handler or returned in the response has price 0.
C38_ZeroPriceNeverAccepted ==
    /\ \A product \in ZeroPriced :
          /\ "price" \in _required_missing(product)
          /\ ~ _is_valid_product(product)
          /\ "price" \in _product_missing_fields(product)
          /\ KeepProduct([collected |-> collected, seen_links |-> seen_links,
                          stopped |-> FALSE], product).collected = collected
    /\ \A k \in 1..Len(items) : items[k].price # 0
    /\ \A k \in 1..Len(collected) : collected[k].price # 0
    /\ \A k \in 1..Len(resp.products) : resp.products[k].price # 0

\* under a band that starts at 0 the spider has met a card of price 0, which
\* it holds back for enrichment instead of emitting it
C38_Witness ==
    /\ min_price = 0
    /\ pages_processed >= 1
    /\ \E partial \in detail_reqs : partial.price = 0
    /\ items = << >>

\* the session of a call on the rows of the store that handles the whole batch
WholeBatch(products) ==
    SaveLoop([products |-> db.products, images |-> db.images,
              saved |-> << >>], products, 1, 0)

\* C39: a batch is committed all or nothing.  A database error raised while
\* product number fail_at is handled, or by the commit, leaves every Product
\* and ImageURL row as it was before the call, and the list returned still
\* holds a created or updated entry for each product handled before the
\* error; a call leaves the store either unchanged or with the rows of the
\* whole batch, never with those of a part of it.
C39_AllOrNothing ==
    /\ [](\A products \in Batches : \A fail_at \in 1..(Len(products) + 1) :
            LET out == _save_products_to_db(products, db, fail_at) IN
            /\ out.store = db
            /\ ~ out.raised
            /\ out.saved = SubSeq(WholeBatch(products).saved, 1, fail_at - 1))
    /\ [][SaveStep =>
            LET products == last_save'.products
                saved    == last_save'.saved
                whole    == WholeBatch(products)
            IN  /\ Len(saved) <= Len(products)
                /\ saved = SubSeq(whole.saved, 1, Len(saved))
                /\ \A k \in DOMAIN saved :
                      saved[k].action \in { "created", "updated" }
                /\ \/ db' = db
                   \/ /\ Len(saved) = Len(products)
                      /\ db' = [products |-> whole.products,
                                images |-> whole.images]]_vars

\* a call on two products that met an error while the second was handled:
\* the first is reported as created and the store holds no row
C39_Witness ==
    /\ Len(last_save.products) = 2
    /\ Len(last_save.saved) = 1
    /\ last_save.saved[1].action = "created"
    /\ last_save.products[1].image # ""
    /\ db = EmptyDb

=============================================================================
